---- MODULE Spec2Model ----
(***************************************************************************)
(* Model of the statement-editing core of the bank-statement service:      *)
(* the statement document model (models/statement_schema.py), the balance  *)
(* calculator (processors/balance_calculator.py), the date sequencer       *)
(* (processors/date_sequencer.py) and the edit handler of main.py.         *)
(*                                                                         *)
(* Amounts are Python floats in the code.  Here an amount is an integer    *)
(* number of thousandths (1000.00 is 1000000, 0.004 is 4), so that values  *)
(* that are not multiples of 0.01 exist and round(v, 2) is a real          *)
(* conversion.  Every amount the model feeds in has an even number of      *)
(* thousandths, so no sum or difference ever lies on a rounding tie (a     *)
(* last digit of 5), where the binary representation of the float would    *)
(* decide the direction.                                                   *)
(*                                                                         *)
(* Dates are integers: the number of days since 2024-01-01 (2024-02-01 is  *)
(* 31, 2024-02-29 is 59, 2024-03-02 is 61).  (a - b).days is a - b and     *)
(* d + timedelta(days=k) is d + k.                                         *)
(***************************************************************************)
EXTENDS Integers, Sequences, FiniteSets, TLC

VARIABLES statement, audit_log, call, prev_op, calls,
          response, raw_text, extractor, env, payload, ran,
          logger, summary, pdf, extracted

extraction_vars == <<raw_text, extractor, env, payload, ran>>

logger_vars == <<logger, summary>>

pages_vars == <<pdf, extracted>>

vars == <<statement, audit_log, call, prev_op, calls, response, extraction_vars,
          logger_vars, pages_vars>>

(***************************************************************************)
(* Bounds of the model.                                                    *)
(***************************************************************************)
MaxBalanceTxns == 2
MaxTxns == 8
MaxCalls == 2

(***************************************************************************)
(* Python's None, for the Optional fields (ref, original_date, salary);     *)
(* NoneStr is None where the field is an Optional string.                  *)
(***************************************************************************)
None == -999999

NoneStr == "<None>"

(***************************************************************************)
(* Header: the five fields the edit handler can set.                       *)
(***************************************************************************)
Header(account_holder, account_number) ==
    [account_holder |-> account_holder,
     account_number |-> account_number,
     ifsc           |-> NoneStr,
     micr           |-> NoneStr,
     branch         |-> NoneStr]

(***************************************************************************)
(* round(v, 2) on an amount in thousandths: the nearest multiple of 10,    *)
(* a tie going to the even hundredth.                                      *)
(***************************************************************************)
Round2(v) ==
    LET lo == (v \div 10) * 10
        r  == v - lo
    IN  IF r < 5 THEN lo
        ELSE IF r > 5 THEN lo + 10
        ELSE IF (lo \div 10) % 2 = 0 THEN lo ELSE lo + 10

(***************************************************************************)
(* Transaction(...): the pydantic model; the field validator round_amounts *)
(* runs on credit, debit and balance at construction only (the model does  *)
(* not set validate_assignment, so a later setattr stores the raw value).  *)
(***************************************************************************)
Transaction(date, description, credit, debit, balance) ==
    [date          |-> date,
     description   |-> description,
     credit        |-> Round2(credit),
     debit         |-> Round2(debit),
     balance       |-> Round2(balance),
     ref           |-> None,
     original_date |-> None]

(***************************************************************************)
(* BankStatement(...): opening_balance is stored as given (no validator);  *)
(* the derived fields default to 0.0.                                      *)
(***************************************************************************)
BankStatement(header, transactions, opening_balance) ==
    [header          |-> header,
     transactions    |-> transactions,
     opening_balance |-> opening_balance,
     closing_balance |-> 0,
     total_credits   |-> 0,
     total_debits    |-> 0]

(***************************************************************************)
(* BalanceCalculator.recalculate.  The loop of lines 12-19 is RecalcLoop:  *)
(* i is the position of the loop, running / total_credits / total_debits   *)
(* are the three local accumulators.                                       *)
(***************************************************************************)
SeedRunning_fromClosing(st) == st.closing_balance

SeedRunning(st) == st.opening_balance

StepRunning_creditOnly(running, txn) == running + txn.credit

StepRunning(running, txn) == (running + txn.credit) - txn.debit

AccumulateCredits_roundEach(total, txn) == total + Round2(txn.credit)

AccumulateCredits(total, txn) == total + txn.credit

AccumulateDebits(total, txn) == total + txn.debit

RECURSIVE RecalcLoop(_, _, _, _, _)
RecalcLoop(st, i, running_balance, total_credits, total_debits) ==
    IF i > Len(st.transactions)
    THEN [st EXCEPT !.total_credits   = Round2(total_credits),
                    !.total_debits    = Round2(total_debits),
                    !.closing_balance = Round2(running_balance)]
    ELSE LET txn == st.transactions[i]
             r   == StepRunning(running_balance, txn)
         IN  RecalcLoop([st EXCEPT !.transactions[i].balance = Round2(r)],
                        i + 1, r,
                        AccumulateCredits(total_credits, txn),
                        AccumulateDebits(total_debits, txn))

recalculate(st) == RecalcLoop(st, 1, SeedRunning(st), 0, 0)

(***************************************************************************)
(* int(days * (new_range / orig_range)) as IEEE-754 double arithmetic      *)
(* computes it, for integers days >= 0 and orig_range > 0: the quotient is *)
(* rounded to 53 significant bits, the product is rounded again, and int() *)
(* truncates toward zero.                                                  *)
(*                                                                         *)
(* Let k = days * new_range / orig_range.  When k is not an integer it is  *)
(* at least 1/orig_range away from one, far more than the rounding error,  *)
(* and the result is the integer part of k.  When k is an integer the      *)
(* result is k unless both roundings lose: the quotient was rounded down   *)
(* (remainder r of new_range * 2^(52-a) by orig_range has 0 < 2r <         *)
(* orig_range, where 2^a <= new_range/orig_range < 2^(a+1)), and the       *)
(* product days * quotient = k - days*r/(orig_range * 2^(52-a)) lies more  *)
(* than half a unit in the last place below k (the doubles just below k    *)
(* are 2^(b-52) apart, where 2^b < k <= 2^(b+1)); then the product is a    *)
(* double below k and int() gives k - 1.  E.g. int(7 * (61 / 7)) = 60 and  *)
(* int(11 * (15 / 11)) = 14.                                               *)
(***************************************************************************)
RECURSIVE Pow2(_)
Pow2(e) == IF e = 0 THEN 1 ELSE 2 * Pow2(e - 1)

RECURSIVE Pow2Mod(_, _)
Pow2Mod(e, m) == IF e = 0 THEN 1 % m ELSE (2 * Pow2Mod(e - 1, m)) % m

RECURSIVE ExponentUp(_, _, _)
ExponentUp(n, o, a) == IF o * Pow2(a + 1) <= n THEN ExponentUp(n, o, a + 1) ELSE a

RECURSIVE ExponentDown(_, _, _)
ExponentDown(n, o, j) == IF n * Pow2(j) >= o THEN 0 - j ELSE ExponentDown(n, o, j + 1)

\* a with 2^a <= n / o < 2^(a+1), for n > 0 and o > 0
QuotientExponent(n, o) == IF n >= o THEN ExponentUp(n, o, 0) ELSE ExponentDown(n, o, 1)

RECURSIVE IntegerExponent(_, _)
IntegerExponent(k, b) == IF Pow2(b + 1) < k THEN IntegerExponent(k, b + 1) ELSE b

FloatScalePositive(days, new_range, orig_range) ==
    LET k == (days * new_range) \div orig_range
    IN  IF (days * new_range) % orig_range # 0 \/ k = 0 THEN k
        ELSE LET a == QuotientExponent(new_range, orig_range)
                 r == ((new_range % orig_range) * Pow2Mod(52 - a, orig_range)) % orig_range
                 s == (1 + a) - IntegerExponent(k, 0 - 1)
                 lost == IF s >= 0
                         THEN days * r * Pow2(s) > orig_range
                         ELSE days * r > orig_range * Pow2(0 - s)
             IN  IF r = 0 \/ 2 * r > orig_range THEN k
                 ELSE IF lost THEN k - 1 ELSE k

IntOfScaled(days, new_range, orig_range) ==
    IF new_range < 0
    THEN 0 - FloatScalePositive(days, 0 - new_range, orig_range)
    ELSE FloatScalePositive(days, new_range, orig_range)

(***************************************************************************)
(* DateSequencer.                                                          *)
(***************************************************************************)
SetMin(S) == CHOOSE x \in S : \A y \in S : x <= y

SetMax(S) == CHOOSE x \in S : \A y \in S : x >= y

UniformDistribution_fromOne(transactions, start_date, end_date) ==
    IF Len(transactions) = 1
    THEN [transactions EXCEPT ![1].date = start_date]
    ELSE [p \in 1..Len(transactions) |->
             [transactions[p] EXCEPT
                 !.date = start_date
                          + IntOfScaled(p, end_date - start_date,
                                        Len(transactions) - 1)]]

\* _uniform_distribution
UniformDistribution(transactions, start_date, end_date) ==
    LET num_txns   == Len(transactions)
        total_days == end_date - start_date
    IN  IF num_txns = 1
        THEN [transactions EXCEPT ![1].date = start_date]
        ELSE [p \in 1..num_txns |->
                 \* enumerate() counts from 0: i = p - 1
                 [transactions[p] EXCEPT
                     !.date = start_date + IntOfScaled(p - 1, total_days, num_txns - 1)]]

ScaleDates_fromMax(transactions, start_date, min_orig, new_range, orig_range) ==
    [p \in 1..Len(transactions) |->
        [transactions[p] EXCEPT
            !.date = start_date
                     + IntOfScaled((min_orig + orig_range) - transactions[p].date,
                                   new_range, orig_range)]]

\* _preserve_spacing, lines 41-58
ScaleDates(transactions, start_date, min_orig, new_range, orig_range) ==
    IF orig_range = 0
    THEN UniformDistribution(transactions, start_date, start_date + new_range)
    ELSE [p \in 1..Len(transactions) |->
             [transactions[p] EXCEPT
                 !.date = start_date
                          + IntOfScaled(transactions[p].date - min_orig,
                                        new_range, orig_range)]]

\* _preserve_spacing, lines 36-39 and the call of the rest
OriginalDates(transactions) ==
    {transactions[p].date : p \in 1..Len(transactions)}

SpacingOf_noFallback(transactions, start_date, end_date, original_dates) ==
    IF Cardinality(original_dates) = 1
    THEN [p \in 1..Len(transactions) |->
             [transactions[p] EXCEPT !.date = start_date]]
    ELSE ScaleDates(transactions, start_date, SetMin(original_dates),
                    end_date - start_date,
                    SetMax(original_dates) - SetMin(original_dates))

SpacingOf(transactions, start_date, end_date, original_dates) ==
    IF Cardinality(original_dates) = 1
    THEN UniformDistribution(transactions, start_date, end_date)
    ELSE ScaleDates(transactions, start_date, SetMin(original_dates),
                    end_date - start_date,
                    SetMax(original_dates) - SetMin(original_dates))

PreserveSpacing(transactions, start_date, end_date) ==
    SpacingOf(transactions, start_date, end_date, OriginalDates(transactions))

StoreOriginalDates_onlyFirst(transactions) ==
    [p \in 1..Len(transactions) |->
        IF transactions[p].original_date = None
        THEN [transactions[p] EXCEPT !.original_date = transactions[p].date]
        ELSE transactions[p]]

\* sequence_dates, lines 21-22: txn.original_date = txn.date
StoreOriginalDates(transactions) ==
    [p \in 1..Len(transactions) |->
        [transactions[p] EXCEPT !.original_date = transactions[p].date]]

sequence_dates_storeAfter(transactions, start_date, end_date, method) ==
    IF Len(transactions) = 0 THEN transactions
    ELSE IF method = "preserve_spacing"
    THEN StoreOriginalDates(PreserveSpacing(transactions, start_date, end_date))
    ELSE StoreOriginalDates(UniformDistribution(transactions, start_date, end_date))

\* sequence_dates
sequence_dates(transactions, start_date, end_date, method) ==
    IF Len(transactions) = 0 THEN transactions
    ELSE IF method = "preserve_spacing"
    THEN PreserveSpacing(StoreOriginalDates(transactions), start_date, end_date)
    ELSE UniformDistribution(StoreOriginalDates(transactions), start_date, end_date)

(***************************************************************************)
(* The record of the last call: the operation and, for a date sequencing,  *)
(* its arguments (a call of edit_statement that returned carries the       *)
(* salary_amount and salary_date of its request too).  prev_op is the      *)
(* operation before it, calls the number of operations applied since       *)
(* construction (at most MaxCalls).  response is                           *)
(* how the last call ended: "ok", or the exception it raised (the HTTP     *)
(* status of the error response, for a handler of main.py).  The logger of *)
(* the audit specification is no part of these calls.                      *)
(***************************************************************************)
Ended(op, how) ==
    /\ calls < MaxCalls
    /\ calls' = calls + 1
    /\ prev_op' = call.op
    /\ call' = op
    /\ response' = how
    /\ UNCHANGED <<logger_vars, pages_vars>>

Returned(op) == Ended(op, "ok") /\ UNCHANGED extraction_vars

Call(op, start_date, end_date, method) ==
    [op |-> op, start_date |-> start_date, end_date |-> end_date,
     method |-> method]

NoArgs(op) == Call(op, None, None, "None")

\* the specifications that start from a constructed statement keep no
\* record of the extraction it came from
\* AuditLogger.__init__: no entries; log_file holds the lines written to the
\* logger's file
AuditLogger == [entries |-> <<>>, log_file |-> <<>>]

\* PDFParser.extract_text lines 13-14: no text and no page ranges before a
\* document is read
NoDocument == pdf = "None" /\ extracted = [text |-> <<>>, page_ranges |-> <<>>]

NoExtraction ==
    /\ NoDocument
    /\ response = "ok"
    /\ raw_text = <<>>
    /\ extractor = "None"
    /\ env = "None"
    /\ payload = "None"
    /\ ran = <<>>
    /\ logger = AuditLogger
    /\ summary = "None"

(***************************************************************************)
(* AuditLogger.log_change: one entry appended to the logger's entries.     *)
(* The timestamp is left out.                                              *)
(***************************************************************************)
AuditLogEntry(field_name, old_value, new_value, change_type, transaction_index) ==
    [user_id           |-> "system",
     field_name        |-> field_name,
     old_value         |-> old_value,
     new_value         |-> new_value,
     transaction_index |-> transaction_index,
     change_type       |-> change_type]

log_change_by_first(entries, field_name, old_value, new_value, change_type, transaction_index, user_id) ==
    <<[AuditLogEntry(field_name, old_value, new_value, change_type, transaction_index)
          EXCEPT !.user_id = user_id]>> \o entries

\* lines 12-30, with the user_id given
log_change_by(entries, field_name, old_value, new_value, change_type, transaction_index, user_id) ==
    Append(entries,
           [AuditLogEntry(field_name, old_value, new_value, change_type, transaction_index)
               EXCEPT !.user_id = user_id])

\* lines 12-30, with the default user_id
log_change(entries, field_name, old_value, new_value, change_type, transaction_index) ==
    log_change_by(entries, field_name, old_value, new_value, change_type,
                  transaction_index, "system")

(***************************************************************************)
(* edit_statement, step by step.  Each step maps the pair (statement st,   *)
(* logger entries) reached so far to the next one.                         *)
(***************************************************************************)
HeaderFields == <<"account_holder", "account_number", "ifsc", "micr", "branch">>

\* lines 188-193
RECURSIVE EditHeader(_, _, _)
EditHeader(cx, req, f) ==
    IF f > Len(HeaderFields) THEN cx
    ELSE LET field == HeaderFields[f]
             new_value == req[field]
         IN  IF new_value # NoneStr /\ new_value # ""
             THEN EditHeader(
                    [st |-> [cx.st EXCEPT !.header[field] = new_value],
                     entries |-> log_change(cx.entries, field, cx.st.header[field],
                                            new_value, "header", None)],
                    req, f + 1)
             ELSE EditHeader(cx, req, f + 1)

\* transactions[idx] for a Python index idx < len: a negative idx counts
\* from the end
Position(transactions, idx) ==
    IF idx >= 0 THEN idx + 1 ELSE Len(transactions) + idx + 1

\* lines 197-205; an edit is one (index, key, value)
RECURSIVE EditTransactions(_, _, _)
EditTransactions(cx, edits, e) ==
    IF e > Len(edits) THEN cx
    ELSE LET edit == edits[e]
             idx  == edit.index
             pos  == Position(cx.st.transactions, idx)
         IN  IF idx < Len(cx.st.transactions)
             THEN EditTransactions(
                    [st |-> [cx.st EXCEPT !.transactions[pos][edit.key] = edit.value],
                     entries |-> log_change(cx.entries, edit.key,
                                            cx.st.transactions[pos][edit.key],
                                            edit.value, "transaction", idx)],
                    edits, e + 1)
             ELSE EditTransactions(cx, edits, e + 1)

\* lines 216-218
RECURSIVE LogDateChanges(_, _, _)
LogDateChanges(entries, transactions, p) ==
    IF p > Len(transactions) THEN entries
    ELSE LET txn == transactions[p]
         IN  IF txn.original_date # None /\ txn.original_date # txn.date
             THEN LogDateChanges(
                    log_change(entries, "date", txn.original_date, txn.date,
                               "transaction", p - 1),
                    transactions, p + 1)
             ELSE LogDateChanges(entries, transactions, p + 1)

\* lines 208-218
Sequenced(cx, txns) ==
    [st |-> [cx.st EXCEPT !.transactions = txns],
     entries |-> LogDateChanges(cx.entries, txns, 1)]

ApplySequencing(cx, req) ==
    IF req.apply_date_sequencing /\ req.start_date # None /\ req.end_date # None
    THEN Sequenced(cx, sequence_dates(cx.st.transactions, req.start_date,
                                      req.end_date, req.date_distribution_method))
    ELSE cx

\* list.sort(key=lambda x: x.date): a stable sort.  The element at
\* position p moves to position SortRank(p): behind every element with an
\* earlier date and every element with the same date that stood before it.
SortRank(transactions, p) ==
    1 + Cardinality({q \in 1..Len(transactions) :
                        \/ transactions[q].date < transactions[p].date
                        \/ /\ transactions[q].date = transactions[p].date
                           /\ q < p})

Permuted(transactions, rank) ==
    [r \in 1..Len(transactions) |->
        transactions[CHOOSE p \in 1..Len(transactions) : rank[p] = r]]

SortByDate(transactions) ==
    Permuted(transactions,
             [p \in 1..Len(transactions) |-> SortRank(transactions, p)])

AddSalary_first(cx, req) ==
    IF req.salary_amount # None /\ req.salary_amount # 0 /\ req.salary_date # None
    THEN LET salary_txn == Transaction(req.salary_date, "Salary Credit",
                                       req.salary_amount, 0, 0)
         IN  [st |-> [cx.st EXCEPT
                        !.transactions = SortByDate(<<salary_txn>> \o @)],
              entries |-> log_change(cx.entries, "salary", None,
                                     req.salary_amount, "transaction", None)]
    ELSE cx

\* lines 221-232
AddSalary(cx, req) ==
    IF req.salary_amount # None /\ req.salary_amount # 0 /\ req.salary_date # None
    THEN LET salary_txn == Transaction(req.salary_date, "Salary Credit",
                                       req.salary_amount, 0, 0)
         IN  [st |-> [cx.st EXCEPT
                        !.transactions = SortByDate(Append(@, salary_txn))],
              entries |-> log_change(cx.entries, "salary", None,
                                     req.salary_amount, "transaction", None)]
    ELSE cx

\* lines 235-241
RecalculateAndSave(cx) == [st |-> recalculate(cx.st), entries |-> cx.entries]

\* lines 186-241
edit_statement(st, req) ==
    RecalculateAndSave(
        AddSalary(
            ApplySequencing(
                EditTransactions(
                    EditHeader([st |-> st, entries |-> <<>>], req, 1),
                    req.transaction_edits, 1),
                req),
            req))

EditRequest(account_holder, transaction_edits, window, method, salary) ==
    [account_holder           |-> account_holder,
     account_number           |-> NoneStr,
     ifsc                     |-> NoneStr,
     micr                     |-> NoneStr,
     branch                   |-> NoneStr,
     transaction_edits        |-> transaction_edits,
     start_date               |-> window[1],
     end_date                 |-> window[2],
     apply_date_sequencing    |-> window[1] # None,
     date_distribution_method |-> method,
     salary_amount            |-> salary[1],
     salary_date              |-> salary[2]]

(***************************************************************************)
(* Construction of a statement from an extraction payload                  *)
(* (the parsers build a BankStatement from the payload).  The payload's    *)
(* amounts are raw: RawAmountPairs holds (credit, debit) as the payload    *)
(* gives them, OpeningBalances the opening balances.  Transaction i is     *)
(* dated 4 * (i - 1): 2024-01-01, 2024-01-05, ...                          *)
(***************************************************************************)
RawAmountPairs == {<<1000000, 0>>, <<0, 200000>>, <<4, 6>>}

OpeningBalances == {0, 4, 1000000}


PayloadHeader == Header("John Doe", "123456789")

Payload(n, amounts, dates) ==
    [i \in 1..n |->
        Transaction(dates[i], "t" \o ToString(i), amounts[i][1], amounts[i][2], 0)]

Init ==
    /\ \E n \in 1..MaxBalanceTxns :
         \E amounts \in [1..n -> RawAmountPairs] :
           \E ob \in OpeningBalances :
             statement = BankStatement(PayloadHeader,
                 Payload(n, amounts, [i \in 1..n |-> 4 * (i - 1)]), ob)
    /\ audit_log = <<>>
    /\ call = NoArgs("construct")
    /\ prev_op = "None"
    /\ calls = 0
    /\ NoExtraction

(***************************************************************************)
(* A call of BalanceCalculator.recalculate on the statement.               *)
(***************************************************************************)
Recalculate ==
    /\ statement' = recalculate(statement)
    /\ UNCHANGED audit_log
    /\ Returned(NoArgs("recalculate"))

(***************************************************************************)
(* A call of DateSequencer.sequence_dates on the statement's transactions  *)
(* (StatementProcessor.process_statement and edit_statement both store the *)
(* returned list back into statement.transactions).  Windows holds the     *)
(* (start_date, end_date) pairs the model calls it with: one day, three    *)
(* days, 2024-02-01..2024-02-29, 2024-01-01..2024-03-02, and one window    *)
(* whose start is after its end.                                           *)
(***************************************************************************)
Windows == {<<0, 0>>, <<0, 3>>, <<31, 59>>, <<0, 61>>, <<59, 31>>}


SequenceDates ==
    \E w \in Windows, method \in {"preserve_spacing", "uniform"} :
        /\ statement' = [statement EXCEPT
               !.transactions = sequence_dates(@, w[1], w[2], method)]
        /\ UNCHANGED audit_log
        /\ Returned(Call("sequence_dates", w[1], w[2], method))

(***************************************************************************)
(* A call of edit_statement on the stored statement (the success path:     *)
(* the edited statement is stored back and the logger's entries are saved).*)
(* audit_log holds the lines of the statement's audit file, which save     *)
(* opens in append mode: the entries of every call that saved, in order.   *)
(***************************************************************************)
Stored(r, req) ==
    /\ statement' = r.st
    /\ audit_log' = audit_log \o r.entries
    /\ Returned(Call("edit_statement", req.start_date, req.end_date,
                     req.date_distribution_method)
                @@ [salary_amount |-> req.salary_amount,
                    salary_date   |-> req.salary_date])

Edit(req) == Stored(edit_statement(statement, req), req)

(***************************************************************************)
(* The requests of the balance specification: one transaction edit that    *)
(* sets a credit or a debit to 0.004 (index -1 is the last transaction,    *)
(* index MaxBalanceTxns is out of range for the statements of Init), a     *)
(* header edit, a salary of 2500.004 on 2024-01-03, and one request that   *)
(* carries all kinds of edit at once.                                      *)
(***************************************************************************)
EditAmounts == {4}

NoWindow == <<None, None>>

NoSalary == <<None, None>>

SalaryInput == <<2500004, 2>>

TransactionEdits ==
    {[index |-> i, key |-> k, value |-> v] :
        i \in (0 - 1)..MaxBalanceTxns, k \in {"credit", "debit"}, v \in EditAmounts}

EditRequests ==
    {EditRequest(NoneStr, <<e>>, NoWindow, "preserve_spacing", NoSalary) :
        e \in TransactionEdits}
    \cup {EditRequest("Jane Roe", <<>>, NoWindow, "preserve_spacing", NoSalary),
          EditRequest(NoneStr, <<>>, NoWindow, "preserve_spacing", SalaryInput),
          EditRequest("Jane Roe",
                      <<[index |-> 0, key |-> "credit", value |-> 4],
                        [index |-> 0 - 1, key |-> "debit", value |-> 4]>>,
                      <<31, 59>>, "preserve_spacing", SalaryInput)}

EditStatement == \E req \in EditRequests : Edit(req)

Next == Recalculate \/ EditStatement

Spec == Init /\ [][Next]_vars

(***************************************************************************)
(* Properties of the balance calculator, checked under Spec.               *)
(***************************************************************************)
\* a Balance Calculator pass has just run: recalculate itself, or
\* edit_statement, which ends with one
AfterRecalculate ==
    call.op \in {"recalculate", "edit_statement"} /\ Len(statement.transactions) > 0

RECURSIVE SumTo(_, _, _)
SumTo(transactions, field, i) ==
    IF i = 0 THEN 0 ELSE SumTo(transactions, field, i - 1) + transactions[i][field]

SumOf(field) == SumTo(statement.transactions, field, Len(statement.transactions))

\* opening_balance + the credits - the debits of transactions 1..i, unrounded
RunningSum(i) ==
    (statement.opening_balance + SumTo(statement.transactions, "credit", i))
        - SumTo(statement.transactions, "debit", i)

PreviousBalance(i) ==
    IF i = 1 THEN statement.opening_balance ELSE statement.transactions[i - 1].balance

IsCents(v) == v % 10 = 0

AllCents ==
    /\ IsCents(statement.opening_balance)
    /\ \A i \in 1..Len(statement.transactions) :
          IsCents(statement.transactions[i].credit)
          /\ IsCents(statement.transactions[i].debit)

\* C1: after a recalculate pass on a non-empty list, closing_balance equals
\* opening_balance + total_credits - total_debits at 2-decimal precision,
\* whatever opening balance and amounts the statement holds.
C1_ClosingIsOpeningPlusTotals ==
    AfterRecalculate =>
        statement.closing_balance
            = Round2((statement.opening_balance + statement.total_credits)
                     - statement.total_debits)

\* C2 as stated: after a recalculate pass each balance is exactly the
\* previous balance (the opening balance for the first) + credit - debit.
C2_ExactRecurrence ==
    AfterRecalculate =>
        \A i \in 1..Len(statement.transactions) :
            statement.transactions[i].balance
                = (PreviousBalance(i) + statement.transactions[i].credit)
                  - statement.transactions[i].debit

\* C2 as amended: after a recalculate pass each balance is the 2-decimal
\* rounding of opening_balance + the sum of (credit - debit) up to and
\* including that transaction, and the exact recurrence holds whenever the
\* opening balance and all amounts are multiples of 0.01.
C2_BalanceIsRoundedRunningSum ==
    AfterRecalculate =>
        /\ \A i \in 1..Len(statement.transactions) :
              statement.transactions[i].balance = Round2(RunningSum(i))
        /\ AllCents =>
              \A i \in 1..Len(statement.transactions) :
                  statement.transactions[i].balance
                      = (PreviousBalance(i) + statement.transactions[i].credit)
                        - statement.transactions[i].debit

\* a pass over two transactions with an opening balance of 0.004: the first
\* balance is not opening_balance + credit - debit, the running sum is kept
C2_Witness ==
    /\ AfterRecalculate
    /\ Len(statement.transactions) >= 2
    /\ ~IsCents(statement.opening_balance)
    /\ statement.transactions[1].balance
          # (statement.opening_balance + statement.transactions[1].credit)
            - statement.transactions[1].debit
    /\ statement.transactions[2].balance # statement.transactions[1].balance

\* C3: recalculate is idempotent: a recalculate pass applied right after
\* another pass leaves every balance, both totals and the closing balance
\* (the whole statement) as the first pass left them.
C3_RecalculateIdempotent ==
    [][(call.op \in {"recalculate", "edit_statement"} /\ call'.op = "recalculate")
          => statement' = statement]_vars

\* recalculate has run twice in a row on a statement whose balances move
C3_Witness ==
    /\ call.op = "recalculate"
    /\ prev_op = "recalculate"
    /\ statement.closing_balance # statement.opening_balance
    /\ statement.closing_balance # 0

\* C4: a recalculate pass sets total_credits and total_debits to the sums of
\* the credits and of the debits, each rounded once at the end, and
\* closing_balance to the rounded final running total; from an opening
\* balance of 1000.00, (credit 1000, debit 0) and (credit 0, debit 200) give
\* balances 2000.00 and 1800.00, totals 1000.00 and 200.00, closing 1800.00.
C4_Example ==
    /\ statement.opening_balance = 1000000
    /\ Len(statement.transactions) = 2
    /\ statement.transactions[1].credit = 1000000
    /\ statement.transactions[1].debit = 0
    /\ statement.transactions[2].credit = 0
    /\ statement.transactions[2].debit = 200000

C4_TotalsAndClosing ==
    AfterRecalculate =>
        /\ statement.total_credits = Round2(SumOf("credit"))
        /\ statement.total_debits = Round2(SumOf("debit"))
        /\ statement.closing_balance
              = Round2(RunningSum(Len(statement.transactions)))
        /\ C4_Example =>
              /\ statement.transactions[1].balance = 2000000
              /\ statement.transactions[2].balance = 1800000
              /\ statement.total_credits = 1000000
              /\ statement.total_debits = 200000
              /\ statement.closing_balance = 1800000

\* the example statement after a recalculate pass
C4_Witness ==
    /\ call.op = "recalculate"
    /\ C4_Example
    /\ statement.closing_balance = 1800000

(***************************************************************************)
(* The specification of the date sequencer: statements of up to MaxTxns    *)
(* transactions whose dates run in steps of DateSteps days from            *)
(* 2024-01-01 (forwards, backwards or all equal), amounts alternating      *)
(* between a credit of 1000.00 and a debit of 200.00.                      *)
(***************************************************************************)
DateSteps == {0 - 4, 0, 1, 4, 7}

AlternatingAmounts(i) == IF i % 2 = 1 THEN <<1000000, 0>> ELSE <<0, 200000>>

InitDates ==
    /\ \E n \in 1..MaxTxns, step \in DateSteps :
         statement = BankStatement(PayloadHeader,
             Payload(n, [i \in 1..n |-> AlternatingAmounts(i)],
                     [i \in 1..n |-> step * (i - 1)]),
             1000000)
    /\ audit_log = <<>>
    /\ call = NoArgs("construct")
    /\ prev_op = "None"
    /\ calls = 0
    /\ NoExtraction

\* the requests of the date specification: a date sequencing together with
\* a salary entry on 2024-01-03, a salary entry alone, and a salary of 0.0
DateEditRequests ==
    {EditRequest(NoneStr, <<>>, <<31, 59>>, "preserve_spacing", SalaryInput),
     EditRequest(NoneStr, <<>>, <<0, 3>>, "uniform", SalaryInput),
     EditRequest(NoneStr, <<>>, NoWindow, "preserve_spacing", SalaryInput),
     EditRequest(NoneStr, <<>>, NoWindow, "preserve_spacing", <<0, SalaryInput[2]>>)}

EditStatementDates == \E req \in DateEditRequests : Edit(req)

NextDates == SequenceDates \/ EditStatementDates

SpecDates == InitDates /\ [][NextDates]_vars

(***************************************************************************)
(* Properties of the date sequencer, checked under SpecDates on the steps  *)
(* that are a call of sequence_dates: statement holds the list before the  *)
(* call, statement' the list it returned, call' its arguments.             *)
(***************************************************************************)
SequencingStep == call'.op = "sequence_dates"

ValidWindow == call'.start_date <= call'.end_date

Before == statement.transactions

After == statement'.transactions

NonDecreasing(transactions) ==
    \A p \in 1..Len(transactions) : \A q \in p..Len(transactions) :
        transactions[p].date <= transactions[q].date

\* the sequencing the state comes from, for the witnesses
Sequenced_by(method) == call.op = "sequence_dates" /\ call.method = method

\* C5: sequence_dates returns a list of the same length with the same
\* transactions at the same positions; only date and original_date change,
\* and every original_date is the date the transaction had before the call.
C5_SequencingFrame ==
    [][SequencingStep =>
          /\ Len(After) = Len(Before)
          /\ \A p \in 1..Len(Before) :
                /\ After[p] = [Before[p] EXCEPT !.date = After[p].date,
                                                !.original_date = After[p].original_date]
                /\ After[p].original_date = Before[p].date
          /\ statement' = [statement EXCEPT !.transactions = After]]_vars

\* a second sequencing in a row moved a date: original_date is the date
\* before this call, no longer None
C5_Witness ==
    /\ call.op = "sequence_dates"
    /\ prev_op = "sequence_dates"
    /\ Len(statement.transactions) >= 2
    /\ \E p \in 1..Len(statement.transactions) :
          /\ statement.transactions[p].original_date # None
          /\ statement.transactions[p].original_date # statement.transactions[p].date

\* C6: with start_date <= end_date, every date after sequence_dates lies in
\* the window, under both methods.
C6_DatesInWindow ==
    [][(SequencingStep /\ ValidWindow) =>
          \A p \in 1..Len(After) :
              call'.start_date <= After[p].date /\ After[p].date <= call'.end_date]_vars

\* a sequencing into a window of several days that put a date strictly
\* inside the window and another on its last day
C6_Witness ==
    /\ call.op = "sequence_dates"
    /\ call.start_date < call.end_date
    /\ \E p, q \in 1..Len(statement.transactions) :
          /\ call.start_date < statement.transactions[p].date
          /\ statement.transactions[p].date < call.end_date
          /\ statement.transactions[q].date = call.end_date

\* C7 as stated: with start_date <= end_date the dates after sequence_dates
\* are non-decreasing in list position, under either method and for any
\* input list.
C7_AlwaysNonDecreasing ==
    [][(SequencingStep /\ ValidWindow) => NonDecreasing(After)]_vars

\* C7 as amended: with start_date <= end_date the dates after sequence_dates
\* are non-decreasing in list position under uniform-distribution for any
\* input list, and under proportional-spacing when the dates of the input
\* list are non-decreasing in list position.
C7_NonDecreasingForOrderedInput ==
    [][(SequencingStep /\ ValidWindow
            /\ (call'.method = "uniform" \/ NonDecreasing(Before)))
          => NonDecreasing(After)]_vars

\* a proportional-spacing call on three or more transactions in
\* chronological order, not all on one day, that spread them over the window
C7_Witness ==
    /\ Sequenced_by("preserve_spacing")
    /\ call.start_date < call.end_date
    /\ Len(statement.transactions) >= 3
    /\ \A p \in 1..(Len(statement.transactions) - 1) :
          statement.transactions[p].original_date
              <= statement.transactions[p + 1].original_date
    /\ statement.transactions[1].original_date
          < statement.transactions[Len(statement.transactions)].original_date
    /\ statement.transactions[1].date
          < statement.transactions[Len(statement.transactions)].date

\* C8: under proportional-spacing with a non-zero original span (and
\* start_date <= end_date), each new date is start_date + floor((pre-call
\* date - min_orig).days * (end_date - start_date).days / (max_orig -
\* min_orig).days) days.
C8_ProportionalFormula ==
    [][(SequencingStep /\ ValidWindow /\ call'.method = "preserve_spacing"
            /\ Cardinality(OriginalDates(Before)) > 1)
          => \A p \in 1..Len(Before) :
                After[p].date
                    = call'.start_date
                      + ((Before[p].date - SetMin(OriginalDates(Before)))
                             * (call'.end_date - call'.start_date))
                        \div (SetMax(OriginalDates(Before))
                                 - SetMin(OriginalDates(Before)))]_vars

\* C9: under uniform-distribution (start_date <= end_date) a single
\* transaction gets start_date, and for N > 1 the transaction at 0-based
\* position i gets start_date + floor(i * (end_date - start_date).days /
\* (N - 1)) days, so the first gets start_date and the last end_date.
C9_UniformFormula ==
    [][(SequencingStep /\ ValidWindow /\ call'.method = "uniform")
          => /\ Len(Before) = 1 => After[1].date = call'.start_date
             /\ Len(Before) > 1 =>
                   /\ \A p \in 1..Len(Before) :
                         After[p].date
                             = call'.start_date
                               + ((p - 1) * (call'.end_date - call'.start_date))
                                 \div (Len(Before) - 1)
                   /\ After[1].date = call'.start_date
                   /\ After[Len(Before)].date = call'.end_date]_vars

\* C10: when all transactions have the same date before the call,
\* proportional-spacing returns what uniform-distribution returns for the
\* same list and window (dates and original_date values).
C10_IdenticalDatesAsUniform ==
    [][(SequencingStep /\ call'.method = "preserve_spacing"
            /\ Cardinality(OriginalDates(Before)) = 1)
          => After = sequence_dates(Before, call'.start_date, call'.end_date,
                                    "uniform")]_vars

\* a proportional-spacing call on several transactions that all had the
\* same date, which spread them over the window
C10_Witness ==
    /\ Sequenced_by("preserve_spacing")
    /\ Len(statement.transactions) >= 3
    /\ \A p \in 1..Len(statement.transactions) :
          statement.transactions[p].original_date
              = statement.transactions[1].original_date
    /\ statement.transactions[1].date = call.start_date
    /\ statement.transactions[Len(statement.transactions)].date = call.end_date
    /\ call.start_date < call.end_date

\* C11: called with start_date after end_date and method
\* proportional-spacing, sequence_dates falls back to uniform-distribution:
\* the list it returns is the one uniform-distribution returns for the same
\* list and window.
C11_InvalidRangeAsUniform ==
    [][(SequencingStep /\ call'.start_date > call'.end_date
            /\ call'.method = "preserve_spacing")
          => After = sequence_dates(Before, call'.start_date, call'.end_date,
                                    "uniform")]_vars

\* C12: when sequence_dates is called on the list a previous call of
\* sequence_dates returned, each transaction's original_date after the
\* second call is the date the first call gave it, and so the date before
\* the first call (which the first call had stored in original_date) is
\* kept only where the first call left the date as it was.
C12_SecondCallKeepsOneGeneration ==
    [][(call.op = "sequence_dates" /\ SequencingStep) =>
          \A p \in 1..Len(Before) :
              /\ After[p].original_date = Before[p].date
              /\ Before[p].original_date # Before[p].date
                    => After[p].original_date # Before[p].original_date]_vars

\* two sequencings in a row of three or more transactions: every
\* original_date is set, they are not all the same day, and the second call
\* moved every transaction but possibly one
C12_Witness ==
    /\ call.op = "sequence_dates"
    /\ prev_op = "sequence_dates"
    /\ calls = 2
    /\ Len(statement.transactions) >= 3
    /\ \A p \in 1..Len(statement.transactions) :
          statement.transactions[p].original_date # None
    /\ Cardinality({statement.transactions[p].original_date :
                       p \in 1..Len(statement.transactions)}) >= 3
    /\ Cardinality({p \in 1..Len(statement.transactions) :
                       statement.transactions[p].original_date
                           = statement.transactions[p].date}) <= 1

(***************************************************************************)
(* Text, for the offline extractor (parsers/llm_extractor.py).  A          *)
(* character is a string of length 1, a Python str is a sequence of        *)
(* characters.  A token is a str without whitespace, a line is a sequence  *)
(* of tokens and stands for the tokens joined by single blanks (so         *)
(* ln.strip() leaves it as it is), a text is a sequence of lines; the      *)
(* empty line is a line of no tokens.                                      *)
(***************************************************************************)
Digits == <<"0", "1", "2", "3", "4", "5", "6", "7", "8", "9">>

UpperCase == <<"A", "B", "C", "D", "E", "F", "G", "H", "I", "J", "K", "L", "M",
               "N", "O", "P", "Q", "R", "S", "T", "U", "V", "W", "X", "Y", "Z">>

LowerCase == <<"a", "b", "c", "d", "e", "f", "g", "h", "i", "j", "k", "l", "m",
               "n", "o", "p", "q", "r", "s", "t", "u", "v", "w", "x", "y", "z">>

Range(s) == {s[i] : i \in DOMAIN s}

DigitValues == [c \in Range(Digits) |-> (CHOOSE d \in DOMAIN Digits : Digits[d] = c) - 1]

\* re.IGNORECASE: letters are compared in lower case
LowerOf ==
    [c \in Range(UpperCase) |-> LowerCase[CHOOSE u \in DOMAIN UpperCase : UpperCase[u] = c]]

Lower(c) == IF c \in DOMAIN LowerOf THEN LowerOf[c] ELSE c

\* \w
WordChars == Range(Digits) \cup Range(UpperCase) \cup Range(LowerCase) \cup {"_"}

\* the characters of a line: its tokens joined by single blanks
RECURSIVE Joined(_)
Joined(ln) ==
    IF Len(ln) = 0 THEN <<>>
    ELSE IF Len(ln) = 1 THEN ln[1]
    ELSE ln[1] \o <<" ">> \o Joined(Tail(ln))

\* the same text as one string
RECURSIVE Str(_)
Str(chars) == IF chars = <<>> THEN "" ELSE chars[1] \o Str(Tail(chars))

\* the decimal number a sequence of digits denotes
RECURSIVE NatOf(_)
NatOf(digits) ==
    IF digits = <<>> THEN 0
    ELSE 10 * NatOf(SubSeq(digits, 1, Len(digits) - 1))
         + DigitValues[digits[Len(digits)]]

(***************************************************************************)
(* The amount pattern of txn_pattern and of the opening-balance pattern:   *)
(* an optional currency symbol, digits and commas, and optionally a point  *)
(* with one or two digits.  AmountPrefix(chars, i) is the length of the    *)
(* match of the pattern at position i of chars (greedy), 0 if there is     *)
(* none.                                                                   *)
(***************************************************************************)
CurrencySymbols == {"₹", "$"}

\* the length of the longest run of characters of the class from position
\* i of chars on
RunLength(chars, i, class) ==
    LET stops == {j \in i..Len(chars) : chars[j] \notin class}
    IN  IF stops = {} THEN Len(chars) - i + 1
        ELSE (CHOOSE j \in stops : \A k \in stops : j <= k) - i

AmountPrefix(chars, i) ==
    LET symbol   == IF i <= Len(chars) /\ chars[i] \in CurrencySymbols THEN 1 ELSE 0
        whole    == RunLength(chars, i + symbol, DOMAIN DigitValues \cup {","})
        point    == i + symbol + whole
        decimals == IF point <= Len(chars) /\ chars[point] = "."
                    THEN RunLength(chars, point + 1, DOMAIN DigitValues) ELSE 0
    IN  IF whole = 0 THEN 0
        ELSE IF decimals = 0 THEN symbol + whole
        ELSE IF decimals <= 2 THEN symbol + whole + 1 + decimals
        ELSE symbol + whole + 1 + 2

(***************************************************************************)
(* _parse_amount, lines 215-222.  NoneText is None where a str is          *)
(* expected (a group that did not take part in the match, a field that was *)
(* not found); Falsy is Python's "not text".  float() of the cleaned text  *)
(* raises when it has no digit.                                            *)
(***************************************************************************)
NoneText == <<NoneStr>>

Falsy(text) == text = NoneText \/ text = <<>>

Cleaned(text) == SelectSeq(text, LAMBDA c : c \notin CurrencySymbols \cup {",", " "})

FloatOf(cleaned) ==
    LET points == {i \in 1..Len(cleaned) : cleaned[i] = "."}
        point  == IF points = {} THEN Len(cleaned) + 1
                  ELSE CHOOSE i \in points : TRUE
        whole  == SubSeq(cleaned, 1, point - 1)
        frac   == SubSeq(cleaned, point + 1, Len(cleaned))
    IN  1000 * NatOf(whole)
        + (IF Len(frac) = 0 THEN 0
           ELSE IF Len(frac) = 1 THEN 100 * NatOf(frac)
           ELSE 10 * NatOf(frac))

_parse_amount(text) ==
    IF Falsy(text) THEN 0
    ELSE IF \E i \in 1..Len(Cleaned(text)) : Cleaned(text)[i] \in DOMAIN DigitValues
    THEN Round2(FloatOf(Cleaned(text)))
    ELSE 0

(***************************************************************************)
(* txn_pattern, lines 211-213, matched against a line.  The date group is  *)
(* the first token, which must have the shape dddd-dd-dd.  The description *)
(* is lazy and is followed by whitespace, so it ends at the end of a       *)
(* token; what follows it must be taken up by the three optional amount    *)
(* groups, which two runs of optional whitespace separate: at most three   *)
(* tokens, each one amount.  The description is thus as short as it can    *)
(* be: it leaves the trailing amount tokens to the groups, up to three of  *)
(* them, and keeps at least one token for itself.  (For tokens that are    *)
(* one amount or no sequence of amounts at all; a token such as 1.234,     *)
(* which the groups could share between them, is not in the texts of the   *)
(* model.)                                                                 *)
(***************************************************************************)
IsDateShape(tok) ==
    /\ Len(tok) = 10
    /\ \A i \in 1..10 : IF i \in {5, 8} THEN tok[i] = "-" ELSE tok[i] \in DOMAIN DigitValues

\* the number of amount tokens at the end of the line
TrailingAmounts(ln) ==
    LET others == {i \in 1..Len(ln) : ~(Len(ln[i]) > 0 /\ AmountPrefix(ln[i], 1) = Len(ln[i]))}
    IN  IF others = {} THEN Len(ln)
        ELSE Len(ln) - (CHOOSE i \in others : \A j \in others : i >= j)

Least(S) == CHOOSE x \in S : \A y \in S : x <= y

NoMatch == [matched |-> FALSE]

txn_pattern(ln) ==
    IF Len(ln) < 3 \/ ~IsDateShape(ln[1]) \/ TrailingAmounts(ln) = 0
    THEN NoMatch
    ELSE LET groups == Least({3, TrailingAmounts(ln), Len(ln) - 2})
             first  == Len(ln) - groups + 1
         IN  [matched |-> TRUE,
              date    |-> ln[1],
              desc    |-> Joined(SubSeq(ln, 2, first - 1)),
              amount1 |-> ln[first],
              amount2 |-> IF groups >= 2 THEN ln[first + 1] ELSE NoneText,
              balance |-> IF groups >= 3 THEN ln[first + 2] ELSE NoneText]

(***************************************************************************)
(* The loop of lines 232-255: one transaction (a dict) for each line that  *)
(* matches, in the order of the lines.                                     *)
(***************************************************************************)
\* line 243
CreditOf_first(a1, a2) == a1

CreditOf(a1, a2) ==
    IF a1 # 0 /\ ~(a2 # 0) THEN a1
    ELSE IF a1 # 0 /\ a2 = 0 THEN a1 ELSE 0

\* line 244
DebitOf(a1, a2) ==
    IF a2 # 0 /\ ~(a1 # 0) THEN a2
    ELSE IF a2 # 0 /\ a1 = 0 THEN a2 ELSE 0

RowOf_asRead(m, a1, a2, bal) ==
    [date        |-> m.date,
     description |-> m.desc,
     credit      |-> a1,
     debit       |-> a2,
     balance     |-> bal,
     ref         |-> None]

RowOf(m, a1, a2, bal) ==
    [date        |-> m.date,
     description |-> m.desc,
     credit      |-> CreditOf(a1, a2),
     debit       |-> DebitOf(a1, a2),
     balance     |-> bal,
     ref         |-> None]

RECURSIVE MatchedRows(_, _)
MatchedRows(lines, i) ==
    IF i > Len(lines) THEN <<>>
    ELSE IF txn_pattern(lines[i]).matched
    THEN <<RowOf(txn_pattern(lines[i]),
                 _parse_amount(txn_pattern(lines[i]).amount1),
                 _parse_amount(txn_pattern(lines[i]).amount2),
                 _parse_amount(txn_pattern(lines[i]).balance))>>
         \o MatchedRows(lines, i + 1)
    ELSE MatchedRows(lines, i + 1)

(***************************************************************************)
(* The backfill of lines 257-267: running is the running total before      *)
(* transaction i.                                                          *)
(***************************************************************************)
Backfilled(t, running) ==
    IF t.balance = 0
    THEN [t EXCEPT !.balance = Round2(running + t.credit - t.debit)]
    ELSE t

RunningAfter(t, running) ==
    IF t.balance = 0 THEN running + t.credit - t.debit ELSE t.balance

RECURSIVE Backfill(_, _, _)
Backfill(transactions, i, running) ==
    IF i > Len(transactions) THEN transactions
    ELSE Backfill([transactions EXCEPT ![i] = Backfilled(@, running)],
                  i + 1, RunningAfter(transactions[i], running))

(***************************************************************************)
(* The label patterns of lines 204-208 and 228, searched in the characters *)
(* of a line without regard to case.  A label pattern is one or two words  *)
(* (optional whitespace between them), a colon or a hyphen, optional       *)
(* whitespace and a group:                                                 *)
(*   "rest"    (.+)               the rest of the line                     *)
(*   "wordrun" ([\w\- ]+)         word characters, hyphens and blanks      *)
(*   "alnum5"  ([A-Z0-9]{5,})     five or more letters and digits          *)
(*   "amount"  the amount pattern                                          *)
(* The whitespace of a line is single blanks.                              *)
(***************************************************************************)
LabelPattern(first, second, group) ==
    [first |-> first, second |-> second, group |-> group]

\* the word (in lower case) stands at position i
StartsWith(chars, i, word) ==
    /\ i + Len(word) - 1 <= Len(chars)
    /\ \A k \in 1..Len(word) : Lower(chars[i + k - 1]) = word[k]

\* the length of the whitespace at position i
Blanks(chars, i) == IF i <= Len(chars) /\ chars[i] = " " THEN 1 ELSE 0

\* the position behind the label and its colon or hyphen when the label
\* stands at position i, 0 when it does not
LabelEnd(chars, i, pat) ==
    LET second == i + Len(pat.first)
                  + (IF pat.second = <<>> THEN 0
                     ELSE Blanks(chars, i + Len(pat.first)))
        colon  == second + Len(pat.second)
    IN  IF /\ StartsWith(chars, i, pat.first)
           /\ StartsWith(chars, second, pat.second)
           /\ colon <= Len(chars)
           /\ chars[colon] \in {":", "-"}
        THEN colon + 1
        ELSE 0

\* the group behind position g - 1: <<start, length>>, length 0 when the
\* pattern does not match.  The optional whitespace is taken first and
\* given back when the group cannot start behind it.
GroupSpan(chars, g, kind) ==
    LET b == Blanks(chars, g)
    IN  CASE kind = "rest" ->
               <<g + b, Len(chars) - (g + b) + 1>>
          [] kind = "wordrun" ->
               IF RunLength(chars, g + b, WordChars \cup {"-", " "}) > 0
               THEN <<g + b, RunLength(chars, g + b, WordChars \cup {"-", " "})>>
               ELSE <<g, RunLength(chars, g, WordChars \cup {"-", " "})>>
          [] kind = "alnum5" ->
               IF RunLength(chars, g + b, WordChars \ {"_"}) >= 5
               THEN <<g + b, RunLength(chars, g + b, WordChars \ {"_"})>>
               ELSE <<g, 0>>
          [] kind = "amount" ->
               <<g + b, AmountPrefix(chars, g + b)>>

\* str.strip()
Strip(chars) ==
    LET inked == {i \in 1..Len(chars) : chars[i] # " "}
    IN  IF inked = {} THEN <<>>
        ELSE SubSeq(chars, Least(inked),
                    CHOOSE i \in inked : \A j \in inked : i >= j)

\* group(1).strip() of the match whose group has the span
GroupText(chars, span) == Strip(SubSeq(chars, span[1], span[1] + span[2] - 1))

\* re.search(pat, ln).group(1).strip(): the match at the leftmost position
SearchLabel(chars, pat) ==
    LET hits == {i \in 1..Len(chars) :
                    /\ LabelEnd(chars, i, pat) > 0
                    /\ GroupSpan(chars, LabelEnd(chars, i, pat), pat.group)[2] > 0}
    IN  IF hits = {} THEN NoMatch
        ELSE [matched |-> TRUE,
              group   |-> GroupText(chars,
                              GroupSpan(chars, LabelEnd(chars, Least(hits), pat),
                                        pat.group))]

\* the pattern (.+?)\s+bank\b of line 206: the lazy group starts at the
\* start of the line and ends before the first " bank" that ends a word
SearchBeforeWord(chars, word) ==
    LET hits == {j \in 1..Len(chars) :
                    /\ Blanks(chars, j + 1) = 1
                    /\ StartsWith(chars, j + 2, word)
                    /\ \/ j + 2 + Len(word) > Len(chars)
                       \/ chars[j + 2 + Len(word)] \notin WordChars}
    IN  IF hits = {} THEN NoMatch
        ELSE [matched |-> TRUE,
              group   |-> Strip(SubSeq(chars, 1, Least(hits)))]

Search(chars, pat) ==
    IF pat.group = "before" THEN SearchBeforeWord(chars, pat.first)
    ELSE SearchLabel(chars, pat)

(***************************************************************************)
(* _find, lines 195-202: the patterns in their order, and for each pattern *)
(* the lines in their order; the group of the first match, None when       *)
(* nothing matches.                                                        *)
(***************************************************************************)
RECURSIVE _find(_, _, _, _)

FoundOr(m, lines, patterns, p, l) ==
    IF m.matched THEN m.group ELSE _find(lines, patterns, p, l + 1)

_find(lines, patterns, p, l) ==
    IF p > Len(patterns) THEN NoneText
    ELSE IF l > Len(lines) THEN _find(lines, patterns, p + 1, 1)
    ELSE FoundOr(Search(Joined(lines[l]), patterns[p]), lines, patterns, p, l)

\* the patterns of each field, in their order (the words in lower case)
Patterns ==
    [account_holder |->
        <<LabelPattern(<<"a", "c", "c", "o", "u", "n", "t">>,
                       <<"h", "o", "l", "d", "e", "r">>, "rest"),
          LabelPattern(<<"h", "o", "l", "d", "e", "r">>, <<>>, "rest")>>,
     account_number |->
        <<LabelPattern(<<"a", "c", "c", "o", "u", "n", "t">>,
                       <<"n", "u", "m", "b", "e", "r">>, "wordrun"),
          LabelPattern(<<"a", "/", "c">>, <<"n", "o">>, "wordrun")>>,
     bank_name |->
        <<LabelPattern(<<"b", "a", "n", "k">>, <<>>, "rest"),
          LabelPattern(<<"b", "a", "n", "k">>, <<>>, "before")>>,
     ifsc |->
        <<LabelPattern(<<"i", "f", "s", "c">>, <<>>, "alnum5")>>,
     branch |->
        <<LabelPattern(<<"b", "r", "a", "n", "c", "h">>, <<>>, "rest")>>,
     opening_balance |->
        <<LabelPattern(<<"o", "p", "e", "n", "i", "n", "g">>,
                       <<"b", "a", "l", "a", "n", "c", "e">>, "amount")>>]

(***************************************************************************)
(* _extract_with_rules, lines 190-294.  The text is the sequence of the    *)
(* lines of raw_text (splitlines); Today is the str datetime.today() is    *)
(* formatted to.                                                           *)
(***************************************************************************)
Today == <<"2", "0", "2", "4", "-", "0", "3", "-", "0", "2">>

\* the defaults of lines 270-272
Defaults ==
    [bank_name      |-> <<"U", "n", "k", "n", "o", "w", "n", " ", "B", "a", "n", "k">>,
     account_holder |-> <<"U", "n", "k", "n", "o", "w", "n">>,
     account_number |-> <<"0", "0", "0", "0", "0", "0", "0", "0", "0", "0">>]

\* line 192
NonEmptyLines(text) == SelectSeq(text, LAMBDA ln : Len(ln) > 0)

Find(lines, patterns) == _find(lines, patterns, 1, 1)

\* x or default
Or(text, default) == IF Falsy(text) THEN default ELSE text

\* lines 224-230
OpeningBalanceOf(lines) ==
    IF Falsy(Find(lines, Patterns.opening_balance)) THEN 0
    ELSE _parse_amount(Find(lines, Patterns.opening_balance))

\* lines 269-278
HeaderOf(lines) ==
    [bank_name        |-> Or(Find(lines, Patterns.bank_name), Defaults.bank_name),
     account_holder   |-> Or(Find(lines, Patterns.account_holder), Defaults.account_holder),
     account_number   |-> SelectSeq(Or(Find(lines, Patterns.account_number),
                                       Defaults.account_number),
                                    LAMBDA c : c # " "),
     ifsc             |-> Find(lines, Patterns.ifsc),
     micr             |-> NoneText,
     branch           |-> Find(lines, Patterns.branch),
     statement_period |-> NoneText,
     address          |-> NoneText]

\* lines 282-291
Placeholder_none(opening_balance) == <<>>

Placeholder(opening_balance) ==
    <<[date        |-> Today,
       description |-> <<"P", "a", "r", "s", "e", "d", " ", "w", "i", "t",
                           "h", " ", "o", "f", "f", "l", "i", "n", "e", " ",
                           "r", "u", "l", "e", "s">>,
       credit      |-> 0,
       debit       |-> 0,
       balance     |-> opening_balance,
       ref         |-> None]>>

\* lines 257-294, from the transactions of the loop and the opening balance
PayloadOf(lines, transactions, opening_balance) ==
    [header          |-> HeaderOf(lines),
     transactions    |-> IF Len(transactions) > 0 THEN transactions
                         ELSE Placeholder(opening_balance),
     opening_balance |-> opening_balance,
     closing_balance |-> IF Len(transactions) > 0
                         THEN transactions[Len(transactions)].balance
                         ELSE opening_balance]

ExtractFrom(lines, opening_balance) ==
    PayloadOf(lines, Backfill(MatchedRows(lines, 1), 1, opening_balance),
              opening_balance)

_extract_with_rules(text) ==
    ExtractFrom(NonEmptyLines(text), OpeningBalanceOf(NonEmptyLines(text)))

\* _get_dummy_data, lines 296-322
_get_dummy_data ==
    [header          |-> [bank_name        |-> Defaults.bank_name,
                          account_holder   |-> <<"P", "l", "e", "a", "s", "e", " ", "E", "d", "i", "t">>,
                          account_number   |-> Defaults.account_number,
                          ifsc             |-> NoneText,
                          micr             |-> NoneText,
                          branch           |-> NoneText,
                          statement_period |-> NoneText,
                          address          |-> NoneText],
     transactions    |-> <<[date        |-> Today,
                            description |-> <<"D", "u", "m", "m", "y", " ", "t", "r", "a", "n",
                           "s", "a", "c", "t", "i", "o", "n", " ", "-", " ",
                           "o", "f", "f", "l", "i", "n", "e", " ", "f", "a",
                           "l", "l", "b", "a", "c", "k">>,
                            credit      |-> 0,
                            debit       |-> 0,
                            balance     |-> 0,
                            ref         |-> None]>>,
     opening_balance |-> 0,
     closing_balance |-> 0]

(***************************************************************************)
(* extract_structured_data, lines 58-90.  The extractor is the             *)
(* LLMExtractor object as __init__ left it (lines 9-56): offline, or one   *)
(* of the two online providers.  What the call meets is its environment    *)
(* (met):                                                                  *)
(* the LLM query and the JSON parse raise or return json_data, and the     *)
(* offline rules return or an exception comes up inside them (there is no  *)
(* text the rules themselves raise for; the handler of line 88 catches any *)
(* exception of the runtime).  The result is the payload returned and the  *)
(* steps that ran, in their order.  (The text is not cut at 15000          *)
(* characters: the texts of the model are shorter.)                        *)
(***************************************************************************)
Extractors ==
    {[provider |-> "offline", online_enabled |-> FALSE],
     [provider |-> "groq", online_enabled |-> TRUE],
     [provider |-> "gemini", online_enabled |-> TRUE]}

Environment(llm, json_data, offline) ==
    [llm |-> llm, json_data |-> json_data, offline |-> offline]

Step(step, raised) == [step |-> step, raised |-> raised]

\* lines 84-90
Offline(text, met, steps) ==
    IF met.offline = "raises"
    THEN [payload |-> _get_dummy_data,
          ran     |-> steps \o <<Step("offline", TRUE), Step("dummy", FALSE)>>]
    ELSE [payload |-> _extract_with_rules(text),
          ran     |-> Append(steps, Step("offline", FALSE))]

extract_structured_data_bothPaths(text, ex, met) ==
    IF ex.online_enabled /\ ex.provider \in {"groq", "gemini"}
    THEN Offline(text, met, <<Step("llm", met.llm = "raises")>>)
    ELSE Offline(text, met, <<>>)

extract_structured_data(text, ex, met) ==
    IF ex.online_enabled /\ ex.provider \in {"groq", "gemini"}
    THEN IF met.llm = "raises"
         THEN Offline(text, met, <<Step("llm", TRUE)>>)
         ELSE [payload |-> met.json_data, ran |-> <<Step("llm", FALSE)>>]
    ELSE Offline(text, met, <<>>)

(***************************************************************************)
(* The BankStatement the parsers build from extracted_data                  *)
(* (PDFParser.parse line 90, DOCXParser.parse line 26): pydantic validates *)
(* the payload.  A date is                                                 *)
(* given as a str YYYY-MM-DD and must be a date of the calendar; the       *)
(* account holder and the account number must be a str.  The date becomes  *)
(* a number of days since 2024-01-01, a str the TLA+ string of its         *)
(* characters.                                                             *)
(***************************************************************************)
YearMonthDay(iso) ==
    <<NatOf(SubSeq(iso, 1, 4)), NatOf(SubSeq(iso, 6, 7)), NatOf(SubSeq(iso, 9, 10))>>

DaysInMonth(y, m) ==
    IF m = 2
    THEN (IF y % 4 = 0 /\ (y % 100 # 0 \/ y % 400 = 0) THEN 29 ELSE 28)
    ELSE IF m \in {4, 6, 9, 11} THEN 30 ELSE 31

IsCalendarDate(iso) ==
    /\ IsDateShape(iso)
    /\ YearMonthDay(iso)[1] >= 1
    /\ YearMonthDay(iso)[2] \in 1..12
    /\ YearMonthDay(iso)[3] \in 1..DaysInMonth(YearMonthDay(iso)[1], YearMonthDay(iso)[2])

RECURSIVE DaysBeforeMonth(_, _)
DaysBeforeMonth(y, m) ==
    IF m = 1 THEN 0 ELSE DaysBeforeMonth(y, m - 1) + DaysInMonth(y, m - 1)

\* date.toordinal()
Ordinal(y, m, d) ==
    (y - 1) * 365 + (y - 1) \div 4 - (y - 1) \div 100 + (y - 1) \div 400
    + DaysBeforeMonth(y, m) + d

DateOf(iso) ==
    Ordinal(YearMonthDay(iso)[1], YearMonthDay(iso)[2], YearMonthDay(iso)[3])
    - Ordinal(2024, 1, 1)

Constructible(data) ==
    /\ data.header.account_holder # NoneText
    /\ data.header.account_number # NoneText
    /\ \A i \in 1..Len(data.transactions) : IsCalendarDate(data.transactions[i].date)

TransactionOf(t) ==
    Transaction(DateOf(t.date), Str(t.description), t.credit, t.debit, t.balance)

StatementOf(data) ==
    [BankStatement([f \in {"account_holder", "account_number", "ifsc", "micr", "branch"}
                       |-> Str(data.header[f])],
                   [i \in 1..Len(data.transactions) |-> TransactionOf(data.transactions[i])],
                   data.opening_balance)
        EXCEPT !.closing_balance = data.closing_balance]

(***************************************************************************)
(* The lines of the texts of the model, each with the text it stands for.  *)
(***************************************************************************)
Line ==
    [\* "Account Holder: Jane Roe"
     account_holder |->
         <<<<"A", "c", "c", "o", "u", "n", "t">>,
           <<"H", "o", "l", "d", "e", "r", ":">>, <<"J", "a", "n", "e">>,
           <<"R", "o", "e">>>>,
     \* "Holder: Bob"
     holder |->
         <<<<"H", "o", "l", "d", "e", "r", ":">>, <<"B", "o", "b">>>>,
     \* "Account Number: 1234 5678"
     account_number |->
         <<<<"A", "c", "c", "o", "u", "n", "t">>,
           <<"N", "u", "m", "b", "e", "r", ":">>, <<"1", "2", "3", "4">>,
           <<"5", "6", "7", "8">>>>,
     \* "Opening Balance: $1,000.00"
     opening_balance |->
         <<<<"O", "p", "e", "n", "i", "n", "g">>,
           <<"B", "a", "l", "a", "n", "c", "e", ":">>,
           <<"$", "1", ",", "0", "0", "0", ".", "0", "0">>>>,
     \* "ACME Bank"
     bank |->
         <<<<"A", "C", "M", "E">>, <<"B", "a", "n", "k">>>>,
     \* "Page 1 of 2"
     page |->
         <<<<"P", "a", "g", "e">>, <<"1">>, <<"o", "f">>, <<"2">>>>,
     \* ""
     blank |->
         <<>>,
     \* "2024-01-05 Salary 1000.00"
     credit |->
         <<<<"2", "0", "2", "4", "-", "0", "1", "-", "0", "5">>,
           <<"S", "a", "l", "a", "r", "y">>,
           <<"1", "0", "0", "0", ".", "0", "0">>>>,
     \* "2024-01-06 ATM Cash 0.00 200.00"
     debit |->
         <<<<"2", "0", "2", "4", "-", "0", "1", "-", "0", "6">>,
           <<"A", "T", "M">>, <<"C", "a", "s", "h">>, <<"0", ".", "0", "0">>,
           <<"2", "0", "0", ".", "0", "0">>>>,
     \* "2024-01-07 Transfer 50.00 20.00 4,830.00"
     both |->
         <<<<"2", "0", "2", "4", "-", "0", "1", "-", "0", "7">>,
           <<"T", "r", "a", "n", "s", "f", "e", "r">>,
           <<"5", "0", ".", "0", "0">>, <<"2", "0", ".", "0", "0">>,
           <<"4", ",", "8", "3", "0", ".", "0", "0">>>>,
     \* "2024-01-09 Refund 50.00 0.00 0.00"
     zero_balance |->
         <<<<"2", "0", "2", "4", "-", "0", "1", "-", "0", "9">>,
           <<"R", "e", "f", "u", "n", "d">>, <<"5", "0", ".", "0", "0">>,
           <<"0", ".", "0", "0">>, <<"0", ".", "0", "0">>>>,
     \* "2024-13-45 Fee 0.00 10.00 $90.00"
     no_date |->
         <<<<"2", "0", "2", "4", "-", "1", "3", "-", "4", "5">>,
           <<"F", "e", "e">>, <<"0", ".", "0", "0">>,
           <<"1", "0", ".", "0", "0">>, <<"$", "9", "0", ".", "0", "0">>>>,
     \* "2024-01-11 Charges , 5.5"
     comma |->
         <<<<"2", "0", "2", "4", "-", "0", "1", "-", "1", "1">>,
           <<"C", "h", "a", "r", "g", "e", "s">>, <<",">>, <<"5", ".", "5">>>>,
     \* "2024-01-12 Note 0.00"
     zero |->
         <<<<"2", "0", "2", "4", "-", "0", "1", "-", "1", "2">>,
           <<"N", "o", "t", "e">>, <<"0", ".", "0", "0">>>>,
     \* "2024-01-10 Pending"
     pending |->
         <<<<"2", "0", "2", "4", "-", "0", "1", "-", "1", "0">>,
           <<"P", "e", "n", "d", "i", "n", "g">>>>]

(***************************************************************************)
(* The texts: one of the header blocks followed by at most MaxRows of the  *)
(* row lines.                                                              *)
(***************************************************************************)
MaxRows == 2

HeaderBlocks ==
    {<<>>,
     <<Line.account_holder, Line.account_number, Line.opening_balance>>,
     <<Line.bank, Line.blank, Line.holder, Line.account_holder, Line.page>>}

RowLines ==
    {Line.credit, Line.debit, Line.both, Line.zero_balance, Line.no_date, Line.comma, Line.zero,
     Line.pending}

Texts ==
    {block \o rows :
        block \in HeaderBlocks,
        rows \in UNION {[1..n -> RowLines] : n \in 0..MaxRows}}

(***************************************************************************)
(* What an LLM returns as json_data: a statement payload, and the same     *)
(* payload with a null account holder.                                     *)
(***************************************************************************)
LLMPayload ==
    [header          |-> [bank_name        |-> <<"A", "C", "M", "E", " ", "B", "a", "n", "k">>,
                          account_holder   |-> <<"J", "o", "h", "n", " ", "D", "o", "e">>,
                          account_number   |-> <<"1", "2", "3", "4", "5", "6", "7", "8", "9">>,
                          ifsc             |-> NoneText,
                          micr             |-> NoneText,
                          branch           |-> NoneText,
                          statement_period |-> NoneText,
                          address          |-> NoneText],
     transactions    |-> <<[date        |-> <<"2", "0", "2", "4", "-", "0", "1", "-", "0", "5">>,
                            description |-> <<"S", "a", "l", "a", "r", "y">>,
                            credit      |-> 1000000,
                            debit       |-> 0,
                            balance     |-> 0,
                            ref         |-> None]>>,
     opening_balance |-> 4,
     closing_balance |-> 0]

LLMPayloads ==
    {LLMPayload, [LLMPayload EXCEPT !.header.account_holder = NoneText]}

\* what a call of the extractor ex can meet
Environments(ex) ==
    IF ex.online_enabled
    THEN {Environment("raises", LLMPayload, offline) : offline \in {"returns", "raises"}}
         \cup {Environment("returns", json_data, "returns") : json_data \in LLMPayloads}
    ELSE {Environment("unused", LLMPayload, offline) : offline \in {"returns", "raises"}}

(***************************************************************************)
(* The extraction specification: a text, an extractor and the environment  *)
(* its call will meet (env), and one call of                               *)
(* the parser's parse on the text (PDFParser.parse lines 86-90,            *)
(* DOCXParser.parse lines 25-26): extract_structured_data, then the        *)
(* construction of the statement, which raises ValidationError when the    *)
(* payload is not valid.  statement is the statement parse returned.       *)
(***************************************************************************)
InitExtract ==
    /\ raw_text \in Texts
    /\ extractor \in Extractors
    /\ env \in Environments(extractor)
    /\ payload = "None"
    /\ ran = <<>>
    /\ statement = "None"
    /\ audit_log = <<>>
    /\ call = NoArgs("None")
    /\ prev_op = "None"
    /\ calls = 0
    /\ response = "ok"
    /\ logger = AuditLogger
    /\ summary = "None"
    /\ NoDocument

Parsed(r) ==
    /\ payload' = r.payload
    /\ ran' = r.ran
    /\ IF Constructible(r.payload)
       THEN statement' = StatementOf(r.payload) /\ Ended(NoArgs("parse"), "ok")
       ELSE UNCHANGED statement /\ Ended(NoArgs("parse"), "ValidationError")
    /\ UNCHANGED <<raw_text, extractor, env, audit_log>>

Parse ==
    /\ calls = 0
    /\ Parsed(extract_structured_data(raw_text, extractor, env))

NextExtract == Parse

SpecExtract == InitExtract /\ [][NextExtract]_vars

(***************************************************************************)
(* Properties of the offline extractor and of extract_structured_data,     *)
(* checked under SpecExtract on the states a parse has left: raw_text is   *)
(* the text, payload the payload extract_structured_data returned, ran the *)
(* steps that ran, response how the construction of the statement ended.   *)
(***************************************************************************)
AfterParse == call.op = "parse"

OfflineRan == \E s \in DOMAIN ran : ran[s].step = "offline"

\* the payload is the one the offline rules returned
OfflineReturned == AfterParse /\ ran[Len(ran)] = Step("offline", FALSE)

\* the lines of the text that match the transaction-row pattern, in order
RowsOf(text) == SelectSeq(NonEmptyLines(text), LAMBDA ln : txn_pattern(ln).matched)

\* What the row lines of the model say, read off their text: the first and
\* the second numeric token behind the description as amounts (absent or
\* unparsable: 0), whether a third one, the balance, is there, and its
\* amount.
RowTokens(a1, a2, captured, balance) ==
    [a1 |-> a1, a2 |-> a2, captured |-> captured, balance |-> balance]

TokensOf(ln) ==
    CASE ln = Line.credit      -> RowTokens(1000000, 0, FALSE, 0)
      [] ln = Line.debit       -> RowTokens(0, 200000, FALSE, 0)
      [] ln = Line.both        -> RowTokens(50000, 20000, TRUE, 4830000)
      [] ln = Line.zero_balance -> RowTokens(50000, 0, TRUE, 0)
      [] ln = Line.no_date      -> RowTokens(0, 10000, TRUE, 90000)
      [] ln = Line.comma       -> RowTokens(0, 5500, FALSE, 0)
      [] ln = Line.zero        -> RowTokens(0, 0, FALSE, 0)

\* the opening balance the text states
StatedOpeningBalance(text) ==
    IF \E l \in DOMAIN text : text[l] = Line.opening_balance THEN 1000000 ELSE 0

\* C13: when no line of the text matches the transaction-row pattern, the
\* offline extraction returns exactly one transaction, the placeholder, with
\* credit 0 and debit 0, and its balance and the closing balance are the
\* opening balance extracted from the text (0 by default); the transaction
\* list the offline extraction returns is never empty.
C13_PlaceholderWhenNoRow ==
    OfflineReturned =>
        /\ Len(payload.transactions) >= 1
        /\ RowsOf(raw_text) = <<>> =>
              /\ Len(payload.transactions) = 1
              /\ payload.transactions[1].credit = 0
              /\ payload.transactions[1].debit = 0
              /\ payload.opening_balance = StatedOpeningBalance(raw_text)
              /\ payload.transactions[1].balance = payload.opening_balance
              /\ payload.closing_balance = payload.opening_balance

\* a text with an opening balance and a line that starts with a date but is
\* no transaction row: the placeholder carries the opening balance
C13_Witness ==
    /\ OfflineReturned
    /\ RowsOf(raw_text) = <<>>
    /\ \E l \in DOMAIN raw_text : raw_text[l] = Line.pending
    /\ Len(payload.transactions) = 1
    /\ payload.transactions[1].date = Today
    /\ payload.transactions[1].balance = 1000000
    /\ payload.closing_balance = 1000000

RECURSIVE RunningTotal(_, _, _)
RunningTotal(rows, transactions, k) ==
    IF k = 0 THEN payload.opening_balance
    ELSE IF TokensOf(rows[k]).captured THEN TokensOf(rows[k]).balance
    ELSE RunningTotal(rows, transactions, k - 1)
         + transactions[k].credit - transactions[k].debit

\* C15: a row whose balance token was not captured gets as balance the
\* running total after its credit is added and its debit subtracted; a row
\* whose balance token was captured, a captured 0.00 included, keeps the
\* captured value as its balance (and resets the running total to it).
C15_BalanceBackfill ==
    OfflineReturned =>
        \A k \in 1..Len(RowsOf(raw_text)) :
            payload.transactions[k].balance
                = IF TokensOf(RowsOf(raw_text)[k]).captured
                  THEN TokensOf(RowsOf(raw_text)[k]).balance
                  ELSE Round2(RunningTotal(RowsOf(raw_text), payload.transactions, k))

\* C16: the payload the offline extraction returns is valid for every text:
\* the account holder and the account number are strings, the transaction
\* list is not empty, every date is a date of the calendar, and the
\* statement is constructed from it without an error.
C16_OfflinePayloadValid ==
    OfflineReturned =>
        /\ payload.header.account_holder # NoneText
        /\ payload.header.account_number # NoneText
        /\ Len(payload.transactions) >= 1
        /\ \A k \in 1..Len(payload.transactions) :
              IsCalendarDate(payload.transactions[k].date)
        /\ response = "ok"

IsOnline(ex) == ex.online_enabled /\ ex.provider \in {"groq", "gemini"}

Uploaded(r) ==
    /\ payload' = r.payload
    /\ ran' = r.ran
    /\ IF Constructible(r.payload)
       THEN /\ statement' = recalculate(StatementOf(r.payload))
            /\ Ended(NoArgs("upload_statement"), "ok")
       ELSE /\ UNCHANGED statement
            /\ Ended(NoArgs("upload_statement"), "500")
    /\ UNCHANGED <<raw_text, extractor, env, audit_log>>

UploadStatement ==
    calls = 0 /\ Uploaded(extract_structured_data(raw_text, extractor, env))

\* statement_id in statements_db: the upload stored a statement
Held ==
    \/ call.op = "upload_statement" /\ response = "ok"
    \/ call.op = "edit_statement" /\ response # "404"

\* line 199, statement.transactions[idx]: an index below -len raises
\* IndexError
RaisingEdits(transactions, edits) ==
    {e \in DOMAIN edits : edits[e].index < 0 - Len(transactions)}

\* lines 186-199 up to the first edit that raises: the header edits and
\* the transaction edits before it have been applied
edit_statement_until(st, req) ==
    LET raising == RaisingEdits(st.transactions, req.transaction_edits)
        first   == CHOOSE e \in raising : \A f \in raising : e <= f
    IN  EditTransactions(EditHeader([st |-> st, entries |-> <<>>], req, 1),
                         SubSeq(req.transaction_edits, 1, first - 1), 1)

\* lines 179-250: lines 179-180 answer 404 when nothing is stored, lines
\* 249-250 answer 500 when a step raised
EditStored(req) ==
    IF ~Held
    THEN /\ UNCHANGED <<statement, audit_log, extraction_vars>>
         /\ Ended(NoArgs("edit_statement"), "404")
    ELSE IF RaisingEdits(statement.transactions, req.transaction_edits) = {}
    THEN Edit(req)
    ELSE /\ statement' = edit_statement_until(statement, req).st
         /\ UNCHANGED <<audit_log, extraction_vars>>
         /\ Ended(Call("edit_statement", req.start_date, req.end_date,
                       req.date_distribution_method), "500")

(***************************************************************************)
(* The requests of the store specification: a credit set to 500.00, a      *)
(* balance set to 999.00 (line 203 accepts every attribute of the          *)
(* transaction as a key), a salary, and requests whose last transaction    *)
(* edit has an index below -len for every statement of the model (the      *)
(* offline rules give at most MaxRows transactions, the LLM payload one).  *)
(***************************************************************************)
BelowRange == 0 - (MaxRows + 2)

StoreRequests ==
    {EditRequest(NoneStr, edits, NoWindow, "preserve_spacing", NoSalary) :
        edits \in {<<[index |-> 0, key |-> "credit", value |-> 500000]>>,
                   <<[index |-> BelowRange, key |-> "credit", value |-> 500000]>>,
                   <<[index |-> 0, key |-> "credit", value |-> 500000],
                     [index |-> BelowRange, key |-> "debit", value |-> 500000]>>,
                   <<[index |-> 0, key |-> "balance", value |-> 999000]>>,
                   <<[index |-> 0, key |-> "balance", value |-> 999000],
                     [index |-> BelowRange, key |-> "debit", value |-> 500000]>>}}
    \cup {EditRequest(NoneStr, <<>>, NoWindow, "preserve_spacing", SalaryInput)}

EditStoredStatement == calls > 0 /\ \E req \in StoreRequests : EditStored(req)

NextStore == UploadStatement \/ EditStoredStatement

SpecStore == InitExtract /\ [][NextStore]_vars

(***************************************************************************)
(* Properties of the store, checked under SpecStore.                       *)
(***************************************************************************)
\* opening_balance + the credits - the debits of the transactions 1..i of st
RunningOf(st, i) ==
    (st.opening_balance + SumTo(st.transactions, "credit", i))
        - SumTo(st.transactions, "debit", i)

\* C18: whenever a call has ended, with a success or with an error
\* response, the stored statement is balance-consistent: each transaction's
\* balance is the running balance recomputed from opening_balance and the
\* stored credits and debits, and closing_balance and the totals match them.
C18_StoredStatementConsistent ==
    Held =>
        /\ \A i \in 1..Len(statement.transactions) :
              statement.transactions[i].balance = Round2(RunningOf(statement, i))
        /\ statement.closing_balance
              = Round2(RunningOf(statement, Len(statement.transactions)))
        /\ statement.total_credits
              = Round2(SumTo(statement.transactions, "credit",
                             Len(statement.transactions)))
        /\ statement.total_debits
              = Round2(SumTo(statement.transactions, "debit",
                             Len(statement.transactions)))

(***************************************************************************)
(* The audit specification: one AuditLogger and the calls of its methods.  *)
(* logger.entries is the logger's entry sequence, logger.log_file the      *)
(* lines its file holds (a line is written here as the entry it            *)
(* serialises), summary what the last get_summary returned.  call records  *)
(* the method and, for log_change, its arguments.                          *)
(***************************************************************************)
MaxEntries == 3

\* lines 32-36: the file is opened in append mode
save(lg) == [lg EXCEPT !.log_file = @ \o lg.entries]

_count_by_type_once(entries, i, counts) ==
    [t \in {entries[k].change_type : k \in i..Len(entries)} |-> 1]

\* lines 47-51; counts is the dict, a function on its keys
RECURSIVE _count_by_type(_, _, _)
_count_by_type(entries, i, counts) ==
    IF i > Len(entries) THEN counts
    ELSE LET t == entries[i].change_type
             n == IF t \in DOMAIN counts THEN counts[t] ELSE 0
         IN  _count_by_type(entries, i + 1,
                            [k \in DOMAIN counts \cup {t} |->
                                IF k = t THEN n + 1 ELSE counts[k]])

\* lines 38-45
get_summary(entries) ==
    [total_changes   |-> Len(entries),
     changes_by_type |-> _count_by_type(entries, 1, <<>>),
     changes         |-> entries]

\* the arguments the model calls log_change with
LogArgs ==
    {[field_name |-> "credit", old_value |-> 0, new_value |-> 500000,
      change_type |-> "transaction", transaction_index |-> 0, user_id |-> "system"],
     [field_name |-> "salary", old_value |-> None, new_value |-> 2500000,
      change_type |-> "transaction", transaction_index |-> None, user_id |-> "system"],
     [field_name |-> "opening_balance", old_value |-> 0, new_value |-> 4,
      change_type |-> "header", transaction_index |-> None, user_id |-> "admin"],
     [field_name |-> "closing_balance", old_value |-> 0, new_value |-> 4,
      change_type |-> "calculation", transaction_index |-> None, user_id |-> "system"]}

InitAudit ==
    /\ statement = "None"
    /\ audit_log = <<>>
    /\ call = NoArgs("None")
    /\ prev_op = "None"
    /\ calls = 0
    /\ NoExtraction

LoggerCall(op) ==
    /\ call' = op
    /\ prev_op' = call.op
    /\ UNCHANGED <<statement, audit_log, calls, response, extraction_vars,
                   pages_vars>>

LogChange ==
    \E a \in LogArgs :
        /\ Len(logger.entries) < MaxEntries
        /\ logger' = [logger EXCEPT !.entries =
                         log_change_by(@, a.field_name, a.old_value, a.new_value,
                                       a.change_type, a.transaction_index, a.user_id)]
        /\ UNCHANGED summary
        /\ LoggerCall([op |-> "log_change", args |-> a])

Save ==
    /\ Len(logger.log_file) < MaxEntries
    /\ logger' = save(logger)
    /\ UNCHANGED summary
    /\ LoggerCall([op |-> "save"])

GetSummary ==
    /\ summary' = get_summary(logger.entries)
    /\ UNCHANGED logger
    /\ LoggerCall([op |-> "get_summary"])

NextAudit == LogChange \/ Save \/ GetSummary

SpecAudit == InitAudit /\ [][NextAudit]_vars

(***************************************************************************)
(* Properties of the audit logger, checked under SpecAudit.                *)
(***************************************************************************)
\* C19: the audit trail is append-only: a log_change call adds exactly one
\* entry at the end of the entry sequence, carrying the given field_name,
\* old_value, new_value, change_type, transaction_index and user_id, and no
\* call of log_change, save or get_summary removes, reorders or modifies
\* the entries already present.
C19_AppendOnly ==
    [][/\ Len(logger'.entries) >= Len(logger.entries)
       /\ SubSeq(logger'.entries, 1, Len(logger.entries)) = logger.entries
       /\ call'.op = "log_change" =>
             /\ Len(logger'.entries) = Len(logger.entries) + 1
             /\ \A f \in DOMAIN call'.args :
                   logger'.entries[Len(logger'.entries)][f] = call'.args[f]
       /\ call'.op \in {"save", "get_summary"} =>
             logger'.entries = logger.entries]_vars

\* a log_change after a save and after other entries: three entries, the
\* last one by another user than the first, and a file that holds lines
C19_Witness ==
    /\ call.op = "log_change"
    /\ prev_op = "save"
    /\ Len(logger.entries) = 3
    /\ logger.entries[3].user_id # logger.entries[1].user_id
    /\ logger.entries[3] = [call.args EXCEPT !.user_id = "admin"]
    /\ logger.log_file # <<>>

RECURSIVE SumOver(_, _)
SumOver(counts, keys) ==
    IF keys = {} THEN 0
    ELSE LET k == CHOOSE x \in keys : TRUE
         IN  counts[k] + SumOver(counts, keys \ {k})

\* C20: after any sequence of log_change calls, get_summary reports
\* total_changes equal to the number of entries and changes_by_type[t] equal
\* to the number of entries whose change_type is t for every t that occurs,
\* with no key for a type that does not occur; the counts sum to
\* total_changes.
C20_SummaryCounts ==
    call.op = "get_summary" =>
        /\ summary.total_changes = Len(logger.entries)
        /\ DOMAIN summary.changes_by_type
              = {logger.entries[i].change_type : i \in DOMAIN logger.entries}
        /\ \A t \in DOMAIN summary.changes_by_type :
              summary.changes_by_type[t]
                  = Cardinality({i \in DOMAIN logger.entries :
                                    logger.entries[i].change_type = t})
        /\ SumOver(summary.changes_by_type, DOMAIN summary.changes_by_type)
              = summary.total_changes

\* a summary of three entries of two types, two of them of the same type
C20_Witness ==
    /\ call.op = "get_summary"
    /\ summary.total_changes = 3
    /\ DOMAIN summary.changes_by_type = {"transaction", "header"}
    /\ summary.changes_by_type["transaction"] = 2
    /\ summary.changes_by_type["header"] = 1

\* the entries the step appended to the statement's audit file
Persisted == SubSeq(audit_log', Len(audit_log) + 1, Len(audit_log'))

IsLogged(field_name, old_value, new_value) ==
    \E i \in DOMAIN Persisted :
        /\ Persisted[i].field_name = field_name
        /\ Persisted[i].old_value = old_value
        /\ Persisted[i].new_value = new_value

\* C21: every change a call of edit_statement applies to the stored
\* statement (a header field set, a transaction field set, a date changed
\* by sequencing, the salary insertion) has a matching entry (old value,
\* new value) in the statement's persisted audit log when the call returns,
\* also when the call ends with an error response after some changes were
\* applied.
C21_EveryChangeLogged ==
    [][(call'.op = "edit_statement" /\ response' # "404") =>
          /\ \A f \in {HeaderFields[k] : k \in DOMAIN HeaderFields} :
                statement'.header[f] # statement.header[f]
                    => IsLogged(f, statement.header[f], statement'.header[f])
          /\ Len(statement'.transactions) = Len(statement.transactions) =>
                \A p \in DOMAIN statement.transactions :
                    \A f \in {"date", "description", "credit", "debit"} :
                        statement'.transactions[p][f] # statement.transactions[p][f]
                            => IsLogged(f, statement.transactions[p][f],
                                        statement'.transactions[p][f])
          /\ Len(statement'.transactions) > Len(statement.transactions) =>
                \E p \in DOMAIN statement'.transactions, i \in DOMAIN Persisted :
                    /\ Persisted[i].field_name = "salary"
                    /\ Persisted[i].old_value = None
                    /\ Round2(Persisted[i].new_value) = statement'.transactions[p].credit]_vars

\* C22: in every reachable state every transaction's credit and debit are
\* rounded to 2 decimal places: after construction and after every
\* assignment to those fields, the assignments of edit_statement's
\* transaction_edits included.
C22_AmountsRounded ==
    \A i \in DOMAIN statement.transactions :
        /\ IsCents(statement.transactions[i].credit)
        /\ IsCents(statement.transactions[i].debit)

\* C23: only BalanceCalculator.recalculate writes a transaction's balance,
\* the statement's closing_balance, total_credits or total_debits: a call
\* of edit_statement that ends before its recalculate pass leaves these
\* fields of the stored statement as they were, and one that ends after it
\* leaves them as the pass computed them.
C23_OnlyRecalculateWritesBalances ==
    [][(call'.op = "edit_statement" /\ response' # "404") =>
          IF response' = "ok"
          THEN statement' = recalculate(statement')
          ELSE /\ statement'.closing_balance = statement.closing_balance
               /\ statement'.total_credits = statement.total_credits
               /\ statement'.total_debits = statement.total_debits
               /\ Len(statement'.transactions) = Len(statement.transactions)
               /\ \A p \in DOMAIN statement.transactions :
                     statement'.transactions[p].balance
                         = statement.transactions[p].balance]_vars

\* the lines of the non-empty lines that the pattern matches
MatchingLines(lines, pat) ==
    {l \in DOMAIN lines : Search(Joined(lines[l]), pat).matched}

\* the capture of the first line in document order that matches any of the
\* patterns, by the first pattern in list order that matches that line
FirstByLine(lines, patterns) ==
    LET matching == UNION {MatchingLines(lines, patterns[p]) : p \in DOMAIN patterns}
        l == Least(matching)
        p == Least({q \in DOMAIN patterns : l \in MatchingLines(lines, patterns[q])})
    IN  IF matching = {} THEN NoneText
        ELSE Search(Joined(lines[l]), patterns[p]).group

\* the header value of field f for the capture found
HeaderValue(f, found) ==
    IF f = "account_number"
    THEN SelectSeq(Or(found, Defaults.account_number), LAMBDA c : c # " ")
    ELSE IF f \in DOMAIN Defaults THEN Or(found, Defaults[f])
    ELSE found

\* C24: in offline header extraction each header field's value is the
\* capture of the first non-empty line in document order that matches any
\* of the field's label patterns (the patterns tried in list order on that
\* line); when no line matches any pattern the field gets its default.
C24_FirstMatchingLineWins ==
    OfflineReturned =>
        \A f \in {"account_holder", "account_number", "bank_name", "ifsc", "branch"} :
            payload.header[f]
                = HeaderValue(f, FirstByLine(NonEmptyLines(raw_text), Patterns[f]))

C26_OutOfRangeEditIgnored ==
    [][call'.op = "edit_statement" =>
          /\ \A i \in DOMAIN Persisted :
                Persisted[i].field_name \in {"credit", "debit"}
                    => Persisted[i].transaction_index
                           \in 0..(Len(statement.transactions) - 1)
          /\ Len(statement'.transactions) = Len(statement.transactions) =>
                \A p \in DOMAIN statement.transactions :
                    \A f \in {"credit", "debit"} :
                        statement'.transactions[p][f] # statement.transactions[p][f]
                            => \E i \in DOMAIN Persisted :
                                  /\ Persisted[i].field_name = f
                                  /\ Persisted[i].transaction_index = p - 1]_vars

\* C27: for every audit entry with field_name "date" that a successful
\* call of edit_statement logs, transaction_index is the position, in the
\* statement stored when the call returns, of the transaction whose date
\* was changed from old_value to new_value, also when the same request
\* inserts a salary transaction.
C27_DateEntryIndexIsStoredPosition ==
    [][(call'.op = "edit_statement" /\ response' = "ok") =>
          \A i \in DOMAIN Persisted :
              Persisted[i].field_name = "date" =>
                  LET p == Persisted[i].transaction_index + 1
                  IN  /\ p \in DOMAIN statement'.transactions
                      /\ statement'.transactions[p].date = Persisted[i].new_value
                      /\ statement'.transactions[p].original_date
                            = Persisted[i].old_value
                      /\ statement'.transactions[p].description
                            = statement.transactions[p].description]_vars

(***************************************************************************)
(* Properties of the salary insertion, checked under SpecDates on the      *)
(* steps that are a successful call of edit_statement whose request        *)
(* carries salary_amount and salary_date.                                  *)
(***************************************************************************)
SalaryStep ==
    /\ call'.op = "edit_statement"
    /\ response' = "ok"
    /\ call'.salary_amount # None
    /\ call'.salary_date # None

\* the positions of After that can hold the salary entry of the call
SalaryPositions ==
    {q \in DOMAIN After : /\ After[q].description = "Salary Credit"
                          /\ After[q].date = call'.salary_date}

\* After without position s
Without(s) == [q \in 1..(Len(After) - 1) |-> IF q < s THEN After[q] ELSE After[q + 1]]

\* the transactions of the list dated d, in their order, balances left out
Dated(transactions, d) ==
    SelectSeq([q \in DOMAIN transactions |-> [transactions[q] EXCEPT !.balance = 0]],
              LAMBDA t : t.date = d)

\* the list the salary entry is inserted into: Before, sequenced when the
\* request asks for it
BeforeInsertion ==
    IF call'.start_date # None /\ call'.end_date # None
    THEN sequence_dates(Before, call'.start_date, call'.end_date, call'.method)
    ELSE Before

\* rest holds the transactions of the list, those with equal dates in the
\* order they have in the list
KeepsOrder(rest, transactions) ==
    /\ Len(rest) = Len(transactions)
    /\ \A q \in DOMAIN transactions :
          Dated(rest, transactions[q].date) = Dated(transactions, transactions[q].date)

\* one transaction more, the salary entry with the credit given behind the
\* transactions of its date, the list sorted by date
SalaryInsertedAs(credit) ==
    /\ Len(After) = Len(Before) + 1
    /\ SalaryPositions # {}
    /\ After[SetMax(SalaryPositions)].credit = credit
    /\ After[SetMax(SalaryPositions)].debit = 0
    /\ NonDecreasing(After)
    /\ \A q \in DOMAIN After :
          After[q].date = call'.salary_date => q <= SetMax(SalaryPositions)
    /\ KeepsOrder(Without(SetMax(SalaryPositions)), BeforeInsertion)

\* C28 as stated: after a successful edit_statement call carrying
\* salary_amount and salary_date the stored list has exactly one more
\* transaction (credit = salary_amount, debit = 0, date = salary_date, also
\* when dates were sequenced in the same request), it is sorted by date,
\* and transactions with equal dates keep their previous relative order
\* with the salary entry after them.
C28_SalaryInserted ==
    [][SalaryStep => SalaryInsertedAs(call'.salary_amount)]_vars

\* C28 as amended: the same for a non-zero salary_amount, with a credit of
\* salary_amount rounded to 2 decimal places; a salary_amount of 0 inserts
\* no transaction.
C28_SalaryInsertedRounded ==
    [][SalaryStep =>
          IF call'.salary_amount # 0
          THEN SalaryInsertedAs(Round2(call'.salary_amount))
          ELSE Len(After) = Len(Before)]_vars

\* dates sequenced uniformly onto 2024-01-01..2024-01-04 and a salary on
\* 2024-01-03 in the same request: the salary entry stands behind the
\* transactions that the sequencing put on that date
C28_Witness ==
    /\ call.op = "edit_statement"
    /\ call.method = "uniform"
    /\ call.start_date = 0
    /\ call.salary_date = 2
    /\ Len(statement.transactions) >= 8
    /\ \E q \in DOMAIN statement.transactions :
          /\ q >= 3
          /\ statement.transactions[q].description = "Salary Credit"
          /\ statement.transactions[q].credit = 2500000
          /\ statement.transactions[q - 1].date = 2
          /\ statement.transactions[q - 1].original_date # None
          /\ statement.transactions[q - 2].date = 2

\* C29: under proportional-spacing with start_date <= end_date and a
\* non-zero original span the date mapping is monotone in the original
\* date (pre-call date[i] <= pre-call date[j] implies new date[i] <= new
\* date[j]), the transactions with the earliest original date get
\* start_date and those with the latest get end_date.
C29_MonotoneOntoWindow ==
    [][(SequencingStep /\ ValidWindow /\ call'.method = "preserve_spacing"
            /\ Cardinality(OriginalDates(Before)) > 1)
          => /\ \A i, j \in DOMAIN Before :
                   Before[i].date <= Before[j].date => After[i].date <= After[j].date
             /\ \A p \in DOMAIN Before :
                   /\ Before[p].date = SetMin(OriginalDates(Before))
                         => After[p].date = call'.start_date
                   /\ Before[p].date = SetMax(OriginalDates(Before))
                         => After[p].date = call'.end_date]_vars

(***************************************************************************)
(* The pages of a PDF (parsers/pdf_parser.py).  A page text is the         *)
(* sequence of its characters, or NoneText where the library's             *)
(* page.extract_text() returns None (a page that holds an image only).     *)
(***************************************************************************)
PageRange(start, end, page_type) ==
    [start |-> start, end |-> end, page_type |-> page_type]

\* current_range = None
NoRange == PageRange(0, 0, "None")

statement_keywords ==
    {<<"a", "c", "c", "o", "u", "n", "t", " ", "n", "u", "m", "b", "e",
           "r">>,
         <<"i", "f", "s", "c">>,
         <<"t", "r", "a", "n", "s", "a", "c", "t", "i", "o", "n">>,
         <<"d", "e", "b", "i", "t">>,
         <<"c", "r", "e", "d", "i", "t">>,
         <<"b", "a", "l", "a", "n", "c", "e">>}

promo_keywords ==
    {<<"o", "f", "f", "e", "r">>,
         <<"a", "d", "v", "e", "r", "t", "i", "s", "e", "m", "e", "n", "t">>,
         <<"a", "p", "p", "l", "y", " ", "n", "o", "w">>,
         <<"t", "e", "r", "m", "s", " ", "a", "n", "d", " ", "c", "o", "n",
           "d", "i", "t", "i", "o", "n", "s">>}

\* kw in text_lower is StartsWith at some position of the text
_classify_page(page_text) ==
    LET at == 1..Len(page_text)
    IN  IF Len(Strip(page_text)) < 20 THEN "blank"
        ELSE IF \E kw \in statement_keywords, i \in at : StartsWith(page_text, i, kw)
        THEN "statement"
        ELSE IF \E kw \in promo_keywords, i \in at : StartsWith(page_text, i, kw)
        THEN "promotional"
        ELSE "attachment"


(***************************************************************************)
(* The page texts of the model.                                            *)
(***************************************************************************)
Page ==
    [\* "Balance: 100.00"
     short |->
         <<"B", "a", "l", "a", "n", "c", "e", ":", " ", "1", "0", "0", ".",
           "0", "0">>,
     \* "Closing Balance: 4,830.00"
     scanned |->
         <<"C", "l", "o", "s", "i", "n", "g", " ", "B", "a", "l", "a", "n",
           "c", "e", ":", " ", "4", ",", "8", "3", "0", ".", "0", "0">>,
     \* "Apply Now: Credit Card Offer"
     card |->
         <<"A", "p", "p", "l", "y", " ", "N", "o", "w", ":", " ", "C", "r",
           "e", "d", "i", "t", " ", "C", "a", "r", "d", " ", "O", "f", "f",
           "e", "r">>,
     \* "Apply now for a special offer"
     promotional |->
         <<"A", "p", "p", "l", "y", " ", "n", "o", "w", " ", "f", "o", "r",
           " ", "a", " ", "s", "p", "e", "c", "i", "a", "l", " ", "o", "f",
           "f", "e", "r">>,
     \* "Letter to the branch manager"
     attachment |->
         <<"L", "e", "t", "t", "e", "r", " ", "t", "o", " ", "t", "h", "e",
           " ", "b", "r", "a", "n", "c", "h", " ", "m", "a", "n", "a", "g",
           "e", "r">>,
     \* "Account Number: 1234 5678\nIFSC: ACME0001234\nTransaction Debit Credit Balance"
     full |->
         <<"A", "c", "c", "o", "u", "n", "t", " ", "N", "u", "m", "b", "e",
           "r", ":", " ", "1", "2", "3", "4", " ", "5", "6", "7", "8", "\n",
           "I", "F", "S", "C", ":", " ", "A", "C", "M", "E", "0", "0", "0",
           "1", "2", "3", "4", "\n", "T", "r", "a", "n", "s", "a", "c", "t",
           "i", "o", "n", " ", "D", "e", "b", "i", "t", " ", "C", "r", "e",
           "d", "i", "t", " ", "B", "a", "l", "a", "n", "c", "e">>]
(***************************************************************************)
(* PDFParser.extract_text.  The state of a loop over the pages: the text   *)
(* gathered (the page texts added, each followed by "\n\n" in the code),   *)
(* the ranges appended, the range that is open, and whether the loop was   *)
(* left by an exception.  met says what the call meets in its libraries:   *)
(*   pdfplumber  the page whose extract_text raises in pdfplumber, 0 when  *)
(*               none does (opening the file raises as page 1 does)        *)
(*   PyPDF2      the same for PyPDF2                                       *)
(*   ocr         what OCRHandler.extract_from_page does: "raises",         *)
(*               "unavailable" (no pytesseract or no fitz, it returns "")  *)
(*               or "reads" (it returns the text of the image, here the    *)
(*               text of the full statement page)                          *)
(***************************************************************************)
Loop(text, page_ranges) ==
    [text |-> text, page_ranges |-> page_ranges, current_range |-> NoRange,
     raised |-> FALSE]

\* lines 24-29 and 49-54: page i extends the open range or opens a new one
Ranged(loop, i, page_type) ==
    IF loop.current_range # NoRange /\ loop.current_range.page_type = page_type
    THEN [loop EXCEPT !.current_range.end = i]
    ELSE [loop EXCEPT
            !.page_ranges = IF loop.current_range # NoRange
                            THEN Append(@, loop.current_range) ELSE @,
            !.current_range = PageRange(i, i, page_type)]

\* lines 38-39 and 58-59: the open range is appended after the last page
Closed(loop) ==
    IF loop.current_range # NoRange
    THEN [loop EXCEPT !.page_ranges = Append(@, loop.current_range)]
    ELSE loop

\* lines 21-39
RECURSIVE pdfplumber_pages(_, _, _, _)
pdfplumber_pages(pages, met, i, loop) ==
    IF i > Len(pages) THEN Closed(loop)
    ELSE IF met.pdfplumber = i THEN [loop EXCEPT !.raised = TRUE]
    ELSE LET page_text == Or(pages[i], <<>>)
             page_type == _classify_page(page_text)
             ranged == Ranged(loop, i, page_type)
         IN  IF page_type # "statement"
             THEN pdfplumber_pages(pages, met, i + 1, ranged)
             ELSE IF Len(Strip(page_text)) >= 50
             THEN pdfplumber_pages(pages, met, i + 1,
                                   [ranged EXCEPT !.text = Append(@, page_text)])
             ELSE IF met.ocr = "raises" THEN [ranged EXCEPT !.raised = TRUE]
             ELSE pdfplumber_pages(pages, met, i + 1,
                                   [ranged EXCEPT !.text =
                                       Append(@, IF met.ocr = "reads"
                                                 THEN Page.full ELSE <<>>)])

\* lines 47-59
RECURSIVE PyPDF2_pages(_, _, _, _)
PyPDF2_pages(pages, met, i, loop) ==
    IF i > Len(pages) THEN Closed(loop)
    ELSE IF met.PyPDF2 = i THEN [loop EXCEPT !.raised = TRUE]
    ELSE LET page_text == Or(pages[i], <<>>)
             page_type == _classify_page(page_text)
             ranged == Ranged(loop, i, page_type)
         IN  PyPDF2_pages(pages, met, i + 1,
                          IF page_type = "statement"
                          THEN [ranged EXCEPT !.text = Append(@, page_text)]
                          ELSE ranged)

\* lines 13-65: the fallback of line 40 starts from the text and the ranges
\* the first loop left behind
extract_text(pages, met) ==
    LET first  == pdfplumber_pages(pages, met, 1, Loop(<<>>, <<>>))
        second == PyPDF2_pages(pages, met, 1, Loop(first.text, first.page_ranges))
    IN  IF ~first.raised
        THEN [text |-> first.text, page_ranges |-> first.page_ranges]
        ELSE IF ~second.raised
        THEN [text |-> second.text, page_ranges |-> second.page_ranges]
        ELSE [text |-> <<>>, page_ranges |-> <<PageRange(1, 1, "statement")>>]

(***************************************************************************)
(* The page specification: a document of 1..MaxPages pages and what the    *)
(* call meets, and one call of extract_text on it.                         *)
(***************************************************************************)
MaxPages == 3

Documents ==
    UNION {[pages : [1..n -> {NoneText, Page.short, Page.scanned, Page.card,
                              Page.promotional, Page.attachment, Page.full}],
            met   : [pdfplumber : 0..n, PyPDF2 : 0..n,
                     ocr : {"raises", "unavailable", "reads"}]] : n \in 1..MaxPages}

InitPages ==
    /\ pdf \in Documents
    /\ extracted = [text |-> <<>>, page_ranges |-> <<>>]
    /\ statement = "None"
    /\ audit_log = <<>>
    /\ call = NoArgs("None")
    /\ prev_op = "None"
    /\ calls = 0
    /\ response = "ok"
    /\ raw_text = <<>>
    /\ extractor = "None"
    /\ env = "None"
    /\ payload = "None"
    /\ ran = <<>>
    /\ logger = AuditLogger
    /\ summary = "None"

ExtractText ==
    /\ calls = 0
    /\ extracted' = extract_text(pdf.pages, pdf.met)
    /\ calls' = calls + 1
    /\ prev_op' = call.op
    /\ call' = NoArgs("extract_text")
    /\ UNCHANGED <<pdf, statement, audit_log, response, extraction_vars,
                   logger_vars>>

NextPages == ExtractText

SpecPages == InitPages /\ [][NextPages]_vars

(***************************************************************************)
(* Properties of the page ranges, checked under SpecPages.                 *)
(***************************************************************************)
\* the type of page p of the document
PageType(p) == _classify_page(Or(pdf.pages[p], <<>>))

\* the ranges cover the pages 1..n in order without gap or overlap, each
\* page under its own type, and no two neighbours of one type
Partition(page_ranges, n) ==
    /\ Len(page_ranges) >= 1
    /\ page_ranges[1].start = 1
    /\ page_ranges[Len(page_ranges)].end = n
    /\ \A k \in DOMAIN page_ranges :
          /\ page_ranges[k].start <= page_ranges[k].end
          /\ \A p \in page_ranges[k].start..page_ranges[k].end :
                p \in 1..n /\ PageType(p) = page_ranges[k].page_type
    /\ \A k \in 2..Len(page_ranges) :
          /\ page_ranges[k].start = page_ranges[k - 1].end + 1
          /\ page_ranges[k].page_type # page_ranges[k - 1].page_type

\* one of the two loops went through every page: the call did not end in
\* the last resort of lines 60-63
PageByPage(pages, met) ==
    LET first == pdfplumber_pages(pages, met, 1, Loop(<<>>, <<>>))
    IN  \/ ~first.raised
        \/ ~PyPDF2_pages(pages, met, 1, Loop(first.text, first.page_ranges)).raised

\* C30: after extract_text has processed a document of N >= 1 pages page by
\* page, the page ranges partition the pages 1..N: the first starts at 1, the
\* last ends at N, each has start <= end and starts one page after the one
\* before it ends, every page of a range has the range's page_type, and
\* neighbours differ in type.
C30_PageRangesPartition ==
    call.op = "extract_text" /\ PageByPage(pdf.pages, pdf.met)
        => Partition(extracted.page_ranges, Len(pdf.pages))

====
